---------------------------- MODULE Spec2Model ----------------------------
(***************************************************************************)
(* A model of the transit server's GTFSService: the static catalog that is *)
(* loaded once from the GTFS bundle, and the queries that read it, alone   *)
(* or together with a freshly fetched realtime feed.                       *)
(*                                                                         *)
(* Representation.  A JavaScript Map is a sequence of [key, val] records   *)
(* in insertion order.  A text file of the bundle is the sequence of its   *)
(* data lines, each line already split into fields.  A "HH:MM:SS" text is  *)
(* the sequence <<HH, MM, SS>> of its numeric fields, the empty text being *)
(* <<>>.  An absent string of the feed is "", as the protobuf decoder      *)
(* gives it, and so is an omitted string argument.                         *)
(***************************************************************************)
EXTENDS Integers, Sequences, FiniteSets, TLC

VARIABLES
    phase,       \* "constructed" | "ready" | "failed" | "exited"
    routes,      \* Map routeId -> GTFSRoute
    trips,       \* Map tripId -> GTFSTrip
    stops,       \* Map stopId -> GTFSStop
    stopTimes,   \* Map tripId -> sequence of GTFSStopTime
    routeStops,  \* Map routeId -> sequence of stopId
    bundle,      \* the static GTFS zip the bundle URL serves
    feed,        \* the trip-updates feed the realtime URL serves; where the
                 \* other two feeds are queried, its fields vehicles and
                 \* alerts are the feeds of their URLs
    now,         \* the clock, in Unix seconds
    call,        \* the last operation and its arguments
    local,       \* the working collection the last operation built
    result       \* what the last operation returned

catalog == <<routes, trips, stops, stopTimes, routeStops>>
world == <<bundle, feed, now>>
vars == <<phase, routes, trips, stops, stopTimes, routeStops, bundle, feed, now,
          call, local, result>>

(***************************************************************************)
(* Bounds of the model.                                                    *)
(***************************************************************************)
MaxEntities == 3
MaxStopTimeRows == 3
MaxPerRoute == 2
MaxMinutes == 12
MaxStops == 3
MaxTimes == 11
MaxInFlight == 2
MaxTicks == 1
MaxRoutes == 5

(***************************************************************************)
(* Program constants.                                                      *)
(***************************************************************************)
ArrivalWindow == 7200
DepartureWindow == 86400
DefaultMax == 5
ForRouteMax == 10

SeqsUpTo(S, n) == UNION {[1..k -> S] : k \in 0..n}
Range(s) == {s[i] : i \in 1..Len(s)}

(***************************************************************************)
(* JavaScript Map: has, get, set (a new key is appended, an existing key   *)
(* keeps its place), and Array helpers.                                    *)
(***************************************************************************)
MapHas(m, k) == \E i \in 1..Len(m) : m[i].key = k
MapIndex(m, k) == CHOOSE i \in 1..Len(m) : m[i].key = k
MapGet(m, k) == m[MapIndex(m, k)].val
MapSet(m, k, v) ==
    IF MapHas(m, k)
    THEN [m EXCEPT ![MapIndex(m, k)] = [key |-> k, val |-> v]]
    ELSE Append(m, [key |-> k, val |-> v])
MapKeys(m) == [i \in 1..Len(m) |-> m[i].key]

\* Array.prototype.slice(0, n): a negative n counts from the end.
SliceTo(s, n) ==
    LET e == IF n < 0 THEN (IF Len(s) + n < 0 THEN 0 ELSE Len(s) + n)
             ELSE (IF n > Len(s) THEN Len(s) ELSE n)
    IN SubSeq(s, 1, e)

\* Array.prototype.sort((a, b) => a[f] - b[f]): stable, ascending by field f.
RECURSIVE InsertByField(_, _, _)
InsertByField(sorted, x, f) ==
    IF sorted = <<>> THEN <<x>>
    ELSE IF sorted[Len(sorted)][f] <= x[f] THEN Append(sorted, x)
    ELSE Append(InsertByField(SubSeq(sorted, 1, Len(sorted) - 1), x, f),
                sorted[Len(sorted)])

RECURSIVE SortByField(_, _)
SortByField(s, f) ==
    IF s = <<>> THEN <<>>
    ELSE InsertByField(SortByField(SubSeq(s, 1, Len(s) - 1), f), s[Len(s)], f)

\* Array.prototype.includes
Includes(s, x) == \E i \in 1..Len(s) : s[i] = x

\* Array.prototype.find: the index of the first stop time at stopId, 0 if none.
FindStopTime(sts, stopId) ==
    IF \E i \in 1..Len(sts) : sts[i].stopId = stopId
    THEN CHOOSE i \in 1..Len(sts) :
            /\ sts[i].stopId = stopId
            /\ \A j \in 1..(i - 1) : sts[j].stopId # stopId
    ELSE 0

(***************************************************************************)
(* parseInt of a stop_sequence field: the decimal texts parse, every other *)
(* text is NaN.                                                            *)
(***************************************************************************)
ParseInt(text) ==
    IF \E n \in 0..9 : ToString(n) = text
    THEN [isNaN |-> FALSE, n |-> CHOOSE n \in 0..9 : ToString(n) = text]
    ELSE [isNaN |-> TRUE, n |-> 0]

(***************************************************************************)
(* parseFloat of a coordinate field, in millionths of a degree.            *)
(***************************************************************************)
ParseFloat(text) ==
    CASE text = "48.4284" -> [isNaN |-> FALSE, n |-> 48428400]
      [] text = "48.429300" -> [isNaN |-> FALSE, n |-> 48429300]
      [] text = "48.429302" -> [isNaN |-> FALSE, n |-> 48429302]
      [] text = "48.4300" -> [isNaN |-> FALSE, n |-> 48430000]
      [] text = "48.4500" -> [isNaN |-> FALSE, n |-> 48450000]
      [] text = "-123.3656" -> [isNaN |-> FALSE, n |-> -123365600]
      [] text = "-123.3700" -> [isNaN |-> FALSE, n |-> -123370000]
      [] OTHER -> [isNaN |-> TRUE, n |-> 0]

(***************************************************************************)
(* The static load.                                                        *)
(***************************************************************************)
\* routes.txt is positional: id, short name, long name, _, color, text color.
LoadRouteLine(m, fields) ==
    IF fields # <<"">> /\ Len(fields) >= 6
    THEN MapSet(m, fields[1],
                [routeId |-> fields[1], shortName |-> fields[2],
                 longName |-> fields[3],
                 routeColor |-> IF fields[5] # "" THEN fields[5] ELSE "000000",
                 routeTextColor |-> IF fields[6] # "" THEN fields[6] ELSE "FFFFFF"])
    ELSE m

RECURSIVE LoadRoutes(_, _)
LoadRoutes(m, lines) ==
    IF lines = <<>> THEN m
    ELSE LoadRoutes(LoadRouteLine(m, Head(lines)), Tail(lines))

\* trips.txt is positional: route id, _, trip id, headsign.
LoadTripLine(m, fields) ==
    IF fields # <<"">> /\ Len(fields) >= 4
    THEN MapSet(m, fields[3],
                [tripId |-> fields[3], routeId |-> fields[1],
                 tripHeadsign |-> fields[4]])
    ELSE m

RECURSIVE LoadTrips(_, _)
LoadTrips(m, lines) ==
    IF lines = <<>> THEN m
    ELSE LoadTrips(LoadTripLine(m, Head(lines)), Tail(lines))

\* stops.txt is read by column name; a line is a record of its columns.
LoadStopLine(m, row) ==
    LET lat == ParseFloat(row.stop_lat)
        lon == ParseFloat(row.stop_lon)
    IN IF row.stop_id # "" /\ ~lat.isNaN /\ ~lon.isNaN
       THEN MapSet(m, row.stop_id,
                   [stopId |-> row.stop_id,
                    stopName |-> IF row.stop_name # "" THEN row.stop_name
                                 ELSE row.stop_id,
                    stopLat |-> lat.n, stopLon |-> lon.n])
       ELSE m

RECURSIVE LoadStops(_, _)
LoadStops(m, lines) ==
    IF lines = <<>> THEN m
    ELSE LoadStops(LoadStopLine(m, Head(lines)), Tail(lines))

\* stop_times.txt is read by column name; each accepted line is pushed on its
\* trip's list.
LoadStopTimeLine(m, row) ==
    LET seq == ParseInt(row.stop_sequence)
    IN IF /\ row.trip_id # "" /\ row.stop_id # ""
          /\ row.arrival_time # <<>> /\ row.departure_time # <<>>
          /\ ~seq.isNaN
       THEN LET had == IF MapHas(m, row.trip_id) THEN MapGet(m, row.trip_id)
                       ELSE <<>>
            IN MapSet(m, row.trip_id,
                      Append(had, [tripId |-> row.trip_id,
                                   arrivalTime |-> row.arrival_time,
                                   departureTime |-> row.departure_time,
                                   stopId |-> row.stop_id,
                                   stopSequence |-> seq.n]))
       ELSE m

RECURSIVE PushStopTimes(_, _)
PushStopTimes(m, lines) ==
    IF lines = <<>> THEN m
    ELSE PushStopTimes(LoadStopTimeLine(m, Head(lines)), Tail(lines))

\* The lists left in file order.
SortStopTimes_FileOrder(sts) == sts

\* The sort that ends loadStopTimes: every trip's list, by stopSequence.
SortStopTimes(sts) == SortByField(sts, "stopSequence")

LoadStopTimes(b) ==
    IF "stop_times.txt" \notin b.files THEN <<>>
    ELSE LET pushed == PushStopTimes(<<>>, b.stopTimes)
         IN [i \in 1..Len(pushed) |->
                [key |-> pushed[i].key, val |-> SortStopTimes(pushed[i].val)]]

\* Every stop of the trip appended, already there or not.
AddRouteStops_All(ids, sts) ==
    ids \o [k \in 1..Len(sts) |-> sts[k].stopId]

\* One trip's stops, appended to its route's list unless already there.
RECURSIVE AddRouteStops(_, _)
AddRouteStops(ids, sts) ==
    IF sts = <<>> THEN ids
    ELSE AddRouteStops(IF Includes(ids, Head(sts).stopId) THEN ids
                       ELSE Append(ids, Head(sts).stopId),
                       Tail(sts))

RECURSIVE BuildRouteStopsMapping(_, _, _)
BuildRouteStopsMapping(m, tripEntries, sts) ==
    IF tripEntries = <<>> THEN m
    ELSE LET e == Head(tripEntries)
             rid == e.val.routeId
             had == IF MapHas(m, rid) THEN MapGet(m, rid) ELSE <<>>
         IN BuildRouteStopsMapping(
                IF MapHas(sts, e.key)
                THEN MapSet(m, rid, AddRouteStops(had, MapGet(sts, e.key)))
                ELSE m,
                Tail(tripEntries), sts)

\* stop_times.txt counted among the files the load cannot do without.
MandatoryFiles_WithStopTimes ==
    {"routes.txt", "trips.txt", "stops.txt", "stop_times.txt"}

MandatoryFiles == {"routes.txt", "trips.txt", "stops.txt"}

(***************************************************************************)
(* State after construction: five empty maps.                              *)
(***************************************************************************)
NoCall == [op |-> "none"]

Constructed ==
    /\ phase = "constructed"
    /\ routes = <<>> /\ trips = <<>> /\ stops = <<>>
    /\ stopTimes = <<>> /\ routeStops = <<>>
    /\ call = NoCall /\ local = <<>> /\ result = <<>>

(***************************************************************************)
(* initialize(): loadStaticData.  The tables load in order; a missing      *)
(* mandatory table throws and leaves what was loaded before it.            *)
(***************************************************************************)
\* The failure logged and not thrown on: the service counts as initialized.
Initialize_Lenient ==
    /\ phase = "constructed"
    /\ LET fetched == bundle.status = "ok"
           r == IF fetched /\ "routes.txt" \in bundle.files
                THEN LoadRoutes(<<>>, bundle.routes) ELSE <<>>
           okT == fetched /\ {"routes.txt", "trips.txt"} \subseteq bundle.files
           t == IF okT THEN LoadTrips(<<>>, bundle.trips) ELSE <<>>
           okS == fetched /\ MandatoryFiles \subseteq bundle.files
           s == IF okS THEN LoadStops(<<>>, bundle.stops) ELSE <<>>
           st == IF okS THEN LoadStopTimes(bundle) ELSE <<>>
       IN /\ routes' = r
          /\ trips' = t
          /\ stops' = s
          /\ stopTimes' = st
          /\ routeStops' = IF okS THEN BuildRouteStopsMapping(<<>>, t, st) ELSE <<>>
          /\ phase' = "ready"
    /\ call' = [op |-> "initialize"]
    /\ local' = <<>>
    /\ result' = <<>>
    /\ UNCHANGED world

\* initialize() and what index.ts chains to it: when it resolves, the
\* endpoints are registered and the server listens (phase "ready"); when it
\* rejects (phase "failed"), the catch handler is next.  The fetch of the
\* bundle fails on a non-2xx status, the unzip on bytes that are no zip.
Initialize ==
    /\ phase = "constructed"
    /\ LET fetched == bundle.status = "ok"
           r == IF fetched /\ "routes.txt" \in bundle.files
                THEN LoadRoutes(<<>>, bundle.routes) ELSE <<>>
           okT == fetched /\ {"routes.txt", "trips.txt"} \subseteq bundle.files
           t == IF okT THEN LoadTrips(<<>>, bundle.trips) ELSE <<>>
           okS == fetched /\ MandatoryFiles \subseteq bundle.files
           s == IF okS THEN LoadStops(<<>>, bundle.stops) ELSE <<>>
           st == IF okS THEN LoadStopTimes(bundle) ELSE <<>>
       IN /\ routes' = r
          /\ trips' = t
          /\ stops' = s
          /\ stopTimes' = st
          /\ routeStops' = IF okS THEN BuildRouteStopsMapping(<<>>, t, st) ELSE <<>>
          /\ phase' = IF okS THEN "ready" ELSE "failed"
    /\ call' = [op |-> "initialize"]
    /\ local' = <<>>
    /\ result' = <<>>
    /\ UNCHANGED world

\* The catch handler of index.ts: process.exit(1).
Exit ==
    /\ phase = "failed"
    /\ phase' = "exited"
    /\ call' = [op |-> "exit", code |-> 1]
    /\ local' = <<>>
    /\ result' = <<>>
    /\ UNCHANGED <<catalog, world>>

(***************************************************************************)
(* Live arrivals: getNextArrivals.                                         *)
(***************************************************************************)
Undefined == "<undefined>"

\* TripUpdate.StopTimeUpdate.ScheduleRelationship[n]
ScheduleRelationshipName(n) ==
    CASE n = 0 -> "SCHEDULED"
      [] n = 1 -> "SKIPPED"
      [] n = 2 -> "NO_DATA"
      [] OTHER -> Undefined

\* The delay rules tried before the "Due" rule.
getArrivalStatus_DelayFirst(minutesUntil, delaySeconds) ==
    IF minutesUntil <= 1 THEN "Arriving"
    ELSE IF delaySeconds > 300 THEN "Delayed"
    ELSE IF delaySeconds < -60 THEN "Early"
    ELSE IF minutesUntil <= 2 THEN "Due"
    ELSE ToString(minutesUntil) \o " min"

getArrivalStatus(minutesUntil, delaySeconds) ==
    IF minutesUntil <= 1 THEN "Arriving"
    ELSE IF minutesUntil <= 2 THEN "Due"
    ELSE IF delaySeconds > 300 THEN "Delayed"
    ELSE IF delaySeconds < -60 THEN "Early"
    ELSE ToString(minutesUntil) \o " min"

\* The filter left out: every route passes.
PassesRouteFilter_Always(routeFilter, routeId) == TRUE

\* if (routeFilter && routeId !== routeFilter) return / continue
PassesRouteFilter(routeFilter, routeId) ==
    ~(routeFilter # "" /\ routeId # routeFilter)

\* arrivalTime > currentTime && arrivalTime < currentTime + 7200
\* The window closed at its far end.
InArrivalWindow_Inclusive(arrivalTime, currentTime) ==
    arrivalTime > currentTime /\ arrivalTime <= currentTime + ArrivalWindow

InArrivalWindow(arrivalTime, currentTime) ==
    arrivalTime > currentTime /\ arrivalTime < currentTime + ArrivalWindow

\* The body of the inner forEach: one stop-time update of one trip update.
ProcessUpdate(arrivals, update, tripId, routeId, stopId, currentTime) ==
    IF /\ update.stopId = stopId
       /\ update.arrival.present
       /\ update.arrival.time # 0
       /\ tripId # ""
       /\ routeId # ""
       /\ InArrivalWindow(update.arrival.time, currentTime)
    THEN LET had == IF MapHas(arrivals, routeId) THEN MapGet(arrivals, routeId)
                    ELSE <<>>
         IN MapSet(arrivals, routeId,
                   Append(had,
                          [time |-> update.arrival.time,
                           tripId |-> tripId,
                           delay |-> update.arrival.delay,
                           scheduleRelationship |->
                               IF update.scheduleRelationship # 0
                               THEN ScheduleRelationshipName(update.scheduleRelationship)
                               ELSE Undefined]))
    ELSE arrivals

RECURSIVE ProcessUpdates(_, _, _, _, _, _)
ProcessUpdates(arrivals, updates, tripId, routeId, stopId, currentTime) ==
    IF updates = <<>> THEN arrivals
    ELSE ProcessUpdates(
            ProcessUpdate(arrivals, Head(updates), tripId, routeId, stopId, currentTime),
            Tail(updates), tripId, routeId, stopId, currentTime)

\* The body of the outer forEach: one feed entity.
ProcessEntity(arrivals, entity, stopId, routeFilter, currentTime) ==
    IF entity.kind = "tripUpdate"
       /\ PassesRouteFilter(routeFilter, entity.trip.routeId)
    THEN ProcessUpdates(arrivals, entity.stopTimeUpdate, entity.trip.tripId,
                        entity.trip.routeId, stopId, currentTime)
    ELSE arrivals

RECURSIVE CollectArrivals(_, _, _, _, _)
CollectArrivals(arrivals, entities, stopId, routeFilter, currentTime) ==
    IF entities = <<>> THEN arrivals
    ELSE CollectArrivals(
            ProcessEntity(arrivals, Head(entities), stopId, routeFilter, currentTime),
            Tail(entities), stopId, routeFilter, currentTime)

\* The slice without the sort before it.
SortedArrivals_Unsorted(arrivalData, maxArrivals) ==
    SliceTo(arrivalData, maxArrivals)

\* arrivalData.sort((a, b) => a.time - b.time).slice(0, maxArrivals)
SortedArrivals(arrivalData, maxArrivals) ==
    SliceTo(SortByField(arrivalData, "time"), maxArrivals)

\* trip?.tripHeadsign || ""
Headsign(trps, tripId) ==
    IF MapHas(trps, tripId) THEN MapGet(trps, tripId).tripHeadsign ELSE ""

ArrivalTime(arrival, trps, currentTime) ==
    LET minutesUntilArrival == (arrival.time - currentTime) \div 60
    IN [time |-> arrival.time,
        headsign |-> Headsign(trps, arrival.tripId),
        minutesUntilArrival |-> minutesUntilArrival,
        delaySeconds |-> arrival.delay,
        isRealTime |-> arrival.scheduleRelationship # "SCHEDULED",
        status |-> getArrivalStatus(minutesUntilArrival, arrival.delay)]

\* What getOrCreateRoute would hand back for a route the index lacks.
RoutesGet_OrCreate(rts, routeId) ==
    IF MapHas(rts, routeId)
    THEN [found |-> TRUE, route |-> MapGet(rts, routeId)]
    ELSE [found |-> TRUE,
          route |-> [routeId |-> routeId, shortName |-> routeId,
                     longName |-> routeId, routeColor |-> "000000",
                     routeTextColor |-> "FFFFFF"]]

\* this.routes.get(routeId): the route, or undefined.
RoutesGet(rts, routeId) ==
    IF MapHas(rts, routeId)
    THEN [found |-> TRUE, route |-> MapGet(rts, routeId)]
    ELSE [found |-> FALSE, route |-> <<>>]

BusArrival(route, stopId, routeId, times) ==
    [stopId |-> stopId,
     routeId |-> routeId,
     routeShortName |-> route.shortName,
     routeLongName |-> route.longName,
     routeColor |-> route.routeColor,
     routeTextColor |-> route.routeTextColor,
     tripHeadsign |-> IF times = <<>> THEN "" ELSE times[1].headsign,
     arrivalTimes |-> times]

RECURSIVE FormatArrivals(_, _, _, _, _, _)
FormatArrivals(groups, rts, trps, stopId, currentTime, maxArrivals) ==
    IF groups = <<>> THEN <<>>
    ELSE LET g == Head(groups)
             rest == FormatArrivals(Tail(groups), rts, trps, stopId,
                                    currentTime, maxArrivals)
             sorted == SortedArrivals(g.val, maxArrivals)
             times == [i \in 1..Len(sorted) |->
                          ArrivalTime(sorted[i], trps, currentTime)]
             got == RoutesGet(rts, g.key)
         IN IF got.found
            THEN <<BusArrival(got.route, stopId, g.key, times)>> \o rest
            ELSE rest

\* The route index after getOrCreateRoute has met every route of the groups.
RECURSIVE CreateRoutes(_, _)
CreateRoutes(rts, groups) ==
    IF groups = <<>> THEN rts
    ELSE CreateRoutes(
            IF MapHas(rts, Head(groups).key) THEN rts
            ELSE MapSet(rts, Head(groups).key,
                        RoutesGet_OrCreate(rts, Head(groups).key).route),
            Tail(groups))

\* The routes resolved with getOrCreateRoute, which adds the ones it makes up.
GetNextArrivals_CreatingRoutes(stopId, routeFilter, maxArrivals) ==
    /\ phase = "ready"
    /\ call' = [op |-> "getNextArrivals", stopId |-> stopId,
                routeFilter |-> routeFilter, max |-> maxArrivals,
                currentTime |-> now, threw |-> feed.status # "ok"]
    /\ IF feed.status # "ok"
       THEN local' = <<>> /\ result' = <<>> /\ routes' = routes
       ELSE LET arrivals == CollectArrivals(<<>>, feed.entity, stopId,
                                            routeFilter, now)
            IN /\ local' = arrivals
               /\ routes' = CreateRoutes(routes, arrivals)
               /\ result' = FormatArrivals(arrivals, routes', trips, stopId,
                                           now, maxArrivals)
    /\ UNCHANGED <<phase, trips, stops, stopTimes, routeStops, world>>

GetNextArrivals(stopId, routeFilter, maxArrivals) ==
    /\ phase = "ready"
    /\ call' = [op |-> "getNextArrivals", stopId |-> stopId,
                routeFilter |-> routeFilter, max |-> maxArrivals,
                currentTime |-> now, threw |-> feed.status # "ok"]
    /\ IF feed.status # "ok"
       THEN local' = <<>> /\ result' = <<>>
       ELSE LET arrivals == CollectArrivals(<<>>, feed.entity, stopId,
                                            routeFilter, now)
            IN /\ local' = arrivals
               /\ result' = FormatArrivals(arrivals, routes, trips, stopId,
                                           now, maxArrivals)
    /\ UNCHANGED <<phase, catalog, world>>

\* The private status classifier, applied to a pair of its own.
ClassifyArrival(minutesUntil, delaySeconds) ==
    /\ call' = [op |-> "getArrivalStatus", minutesUntil |-> minutesUntil,
                delaySeconds |-> delaySeconds]
    /\ result' = getArrivalStatus(minutesUntil, delaySeconds)
    /\ local' = <<>>
    /\ UNCHANGED <<phase, catalog, world>>

(***************************************************************************)
(* Scheduled departures: getScheduledDepartures.                           *)
(***************************************************************************)
getDepartureStatus(minutesUntil) ==
    IF minutesUntil <= 1 THEN "Departing"
    ELSE IF minutesUntil <= 2 THEN "Due"
    ELSE ToString(minutesUntil) \o " min"

\* new Date(year, month, date) of the clock: local midnight (the process
\* runs in UTC).
LocalMidnight(clock) == clock - (clock % 86400)

\* A conversion that rolls a time of day already past to the following day.
parseGtfsTime_Rolling(timeStr, clock) ==
    LET at == LocalMidnight(clock) + timeStr[1] * 3600 + timeStr[2] * 60
                  + timeStr[3]
    IN IF at <= clock THEN at + 86400 ELSE at

\* parseGtfsTime: <<HH, MM, SS>> anchored to the clock's calendar day.
parseGtfsTime(timeStr, clock) ==
    LET hours == timeStr[1]
        minutes == timeStr[2]
        seconds == timeStr[3]
    IN IF hours >= 24
       THEN LocalMidnight(clock) + 86400
                + (hours - 24) * 3600 + minutes * 60 + seconds
       ELSE LocalMidnight(clock) + hours * 3600 + minutes * 60 + seconds

\* departureTime > currentTime && departureTime < currentTime + 86400
InDepartureWindow(departureTime, currentTime) ==
    departureTime > currentTime /\ departureTime < currentTime + DepartureWindow

\* The body of the scan: one entry of the stop-time index.
ScanTrip(departures, tripId, sts, trps, stopId, routeFilter, currentTime) ==
    IF ~MapHas(trps, tripId) THEN departures
    ELSE LET trip == MapGet(trps, tripId)
             at == FindStopTime(sts, stopId)
         IN IF ~PassesRouteFilter(routeFilter, trip.routeId) THEN departures
            ELSE IF at = 0 THEN departures
            ELSE LET departureTime == parseGtfsTime(sts[at].departureTime,
                                                    currentTime)
                     had == IF MapHas(departures, trip.routeId)
                            THEN MapGet(departures, trip.routeId) ELSE <<>>
                 IN IF InDepartureWindow(departureTime, currentTime)
                    THEN MapSet(departures, trip.routeId,
                                Append(had, [time |-> departureTime,
                                             tripId |-> tripId]))
                    ELSE departures

RECURSIVE CollectDepartures(_, _, _, _, _, _)
CollectDepartures(departures, entries, trps, stopId, routeFilter, currentTime) ==
    IF entries = <<>> THEN departures
    ELSE CollectDepartures(
            ScanTrip(departures, Head(entries).key, Head(entries).val, trps,
                     stopId, routeFilter, currentTime),
            Tail(entries), trps, stopId, routeFilter, currentTime)

\* if (!uniqueDepartures.has(departure.time)) uniqueDepartures.set(...)
RECURSIVE DedupDepartures(_, _)
DedupDepartures(unique, departureData) ==
    IF departureData = <<>> THEN unique
    ELSE DedupDepartures(
            IF \E k \in 1..Len(unique) : unique[k].time = Head(departureData).time
            THEN unique
            ELSE Append(unique, Head(departureData)),
            Tail(departureData))

\* Every departure kept, equal timestamps included.
UniqueDepartures_KeepAll(departureData) == departureData

\* uniqueDepartures: the first departure of each timestamp, in first-seen order.
UniqueDepartures(departureData) == DedupDepartures(<<>>, departureData)

\* Array.from(uniqueDepartures.values()).sort(by time).slice(0, maxDepartures)
SortedDepartures(departureData, maxDepartures) ==
    SliceTo(SortByField(UniqueDepartures(departureData), "time"), maxDepartures)

DepartureTime(departure, trps, currentTime) ==
    LET minutesUntilDeparture == (departure.time - currentTime) \div 60
    IN [time |-> departure.time,
        headsign |-> Headsign(trps, departure.tripId),
        minutesUntilDeparture |-> minutesUntilDeparture,
        isScheduled |-> TRUE,
        status |-> getDepartureStatus(minutesUntilDeparture)]

BusDeparture(route, stopId, routeId, times) ==
    [stopId |-> stopId,
     routeId |-> routeId,
     routeShortName |-> route.shortName,
     routeLongName |-> route.longName,
     routeColor |-> route.routeColor,
     routeTextColor |-> route.routeTextColor,
     tripHeadsign |-> IF times = <<>> THEN "" ELSE times[1].headsign,
     departureTimes |-> times]

RECURSIVE FormatDepartures(_, _, _, _, _, _)
FormatDepartures(groups, rts, trps, stopId, currentTime, maxDepartures) ==
    IF groups = <<>> THEN <<>>
    ELSE LET g == Head(groups)
             rest == FormatDepartures(Tail(groups), rts, trps, stopId,
                                      currentTime, maxDepartures)
             sorted == SortedDepartures(g.val, maxDepartures)
             times == [i \in 1..Len(sorted) |->
                          DepartureTime(sorted[i], trps, currentTime)]
             got == RoutesGet(rts, g.key)
         IN IF got.found
            THEN <<BusDeparture(got.route, stopId, g.key, times)>> \o rest
            ELSE rest

\* The departures query fetching the trip-updates feed first, as the
\* arrivals query does.
GetScheduledDepartures_Fetching(stopId, routeFilter, maxDepartures) ==
    /\ phase = "ready"
    /\ call' = [op |-> "getScheduledDepartures", stopId |-> stopId,
                routeFilter |-> routeFilter, max |-> maxDepartures,
                currentTime |-> now, threw |-> feed.status # "ok"]
    /\ local' = <<>>
    /\ result' = <<>>
    /\ UNCHANGED <<phase, catalog, world>>

GetScheduledDepartures(stopId, routeFilter, maxDepartures) ==
    /\ phase = "ready"
    /\ call' = [op |-> "getScheduledDepartures", stopId |-> stopId,
                routeFilter |-> routeFilter, max |-> maxDepartures,
                currentTime |-> now, threw |-> FALSE]
    /\ LET departures == CollectDepartures(<<>>, stopTimes, trips, stopId,
                                           routeFilter, now)
       IN /\ local' = departures
          /\ result' = FormatDepartures(departures, routes, trips, stopId,
                                        now, maxDepartures)
    /\ UNCHANGED <<phase, catalog, world>>

(***************************************************************************)
(* Nearby stops: getNearbyStops.  Coordinates are in millionths of a       *)
(* degree, distances and the radius in centimetres, the returned distance  *)
(* in metres.                                                              *)
(***************************************************************************)
\* The haversine formula, tabulated for the points of the model: each row is
\* <<lat1, lon1, lat2, lon2, R * c>>.
HaversineTable ==
    { <<48428400, -123365600, 48429302, -123365600, 10030>>,
      <<48428400, -123365600, 48429300, -123365600, 10008>>,
      <<48428400, -123365600, 48430000, -123365600, 17791>>,
      <<48428400, -123365600, 48450000, -123370000, 242364>>,
      <<48430000, -123365600, 48428400, -123365600, 17791>>,
      <<48430000, -123365600, 48429302, -123365600, 7761>>,
      <<48430000, -123365600, 48429300, -123365600, 7784>>,
      <<48430000, -123365600, 48450000, -123370000, 224746>>,
      <<48429000, -123366000, 48428400, -123365600, 7295>>,
      <<48429000, -123366000, 48429302, -123365600, 4471>>,
      <<48429000, -123366000, 48429300, -123365600, 4454>>,
      <<48429000, -123366000, 48430000, -123365600, 11504>>,
      <<48429000, -123366000, 48450000, -123370000, 235366>> }

\* With equal points dLat = dLon = 0, so a = 0, c = 0 and the result is 0.
calculateDistance(lat1, lon1, lat2, lon2) ==
    IF lat1 = lat2 /\ lon1 = lon2 THEN 0
    ELSE (CHOOSE row \in HaversineTable :
             /\ row[1] = lat1 /\ row[2] = lon1
             /\ row[3] = lat2 /\ row[4] = lon2)[5]

\* Math.round of a distance that is not negative, in metres.
MathRound(centimetres) == (centimetres + 50) \div 100

\* The comparison without its equality.
WithinRadius_Strict(distance, radiusMeters) == distance < radiusMeters

\* distance <= radiusMeters
WithinRadius(distance, radiusMeters) == distance <= radiusMeters

\* The body of the loop over this.stops: one stop.
VisitStop(nearbyStops, stop, latitude, longitude, radiusMeters) ==
    LET distance == calculateDistance(latitude, longitude,
                                      stop.stopLat, stop.stopLon)
    IN IF WithinRadius(distance, radiusMeters)
       THEN Append(nearbyStops, [stop |-> stop, distance |-> MathRound(distance)])
       ELSE nearbyStops

RECURSIVE VisitStops(_, _, _, _, _)
VisitStops(nearbyStops, entries, latitude, longitude, radiusMeters) ==
    IF entries = <<>> THEN nearbyStops
    ELSE VisitStops(
            VisitStop(nearbyStops, Head(entries).val, latitude, longitude,
                      radiusMeters),
            Tail(entries), latitude, longitude, radiusMeters)

\* The list as the loop leaves it.
SortNearby_LoadOrder(nearbyStops) == nearbyStops

\* nearbyStops.sort((a, b) => a.distance - b.distance)
SortNearby(nearbyStops) == SortByField(nearbyStops, "distance")

GetNearbyStops(latitude, longitude, radiusMeters) ==
    /\ phase = "ready"
    /\ call' = [op |-> "getNearbyStops", latitude |-> latitude,
                longitude |-> longitude, radius |-> radiusMeters]
    /\ local' = <<>>
    /\ result' = SortNearby(VisitStops(<<>>, stops, latitude, longitude,
                                       radiusMeters))
    /\ UNCHANGED <<phase, catalog, world>>

(***************************************************************************)
(* Catalog lookups: getTripDetails.                                        *)
(***************************************************************************)
\* The value undefined where a TripDetails object is expected.
UndefinedDetails == [undefined |-> TRUE]

GetTripDetails(tripId) ==
    /\ phase = "ready"
    /\ call' = [op |-> "getTripDetails", tripId |-> tripId]
    /\ local' = <<>>
    /\ result' =
          IF ~MapHas(trips, tripId) THEN UndefinedDetails
          ELSE LET trip == MapGet(trips, tripId)
                   got == RoutesGet(routes, trip.routeId)
               IN IF ~got.found THEN UndefinedDetails
                  ELSE [trip |-> trip,
                        route |-> got.route,
                        stopTimes |-> IF MapHas(stopTimes, tripId)
                                      THEN MapGet(stopTimes, tripId) ELSE <<>>]
    /\ UNCHANGED <<phase, catalog, world>>

\* The value undefined where a stop, a route or a RouteWithStops is expected.
UndefinedObject == [undefined |-> TRUE]

GetStop(stopId) ==
    /\ phase = "ready"
    /\ call' = [op |-> "getStop", key |-> stopId]
    /\ local' = <<>>
    /\ result' = IF MapHas(stops, stopId) THEN MapGet(stops, stopId)
                 ELSE UndefinedObject
    /\ UNCHANGED <<phase, catalog, world>>

\* Array.from(this.routes.values())
GetAllRoutes ==
    /\ phase = "ready"
    /\ call' = [op |-> "getAllRoutes"]
    /\ local' = <<>>
    /\ result' = [i \in 1..Len(routes) |-> routes[i].val]
    /\ UNCHANGED <<phase, catalog, world>>

GetRoute(routeId) ==
    /\ phase = "ready"
    /\ call' = [op |-> "getRoute", key |-> routeId]
    /\ local' = <<>>
    /\ result' = IF RoutesGet(routes, routeId).found
                 THEN RoutesGet(routes, routeId).route
                 ELSE UndefinedObject
    /\ UNCHANGED <<phase, catalog, world>>

\* A stop made up for every stopId the stop index lacks.
RECURSIVE ResolveStops_Synthesized(_, _)
ResolveStops_Synthesized(stopIds, stps) ==
    IF stopIds = <<>> THEN <<>>
    ELSE <<IF MapHas(stps, Head(stopIds)) THEN MapGet(stps, Head(stopIds))
           ELSE [stopId |-> Head(stopIds), stopName |-> Head(stopIds),
                 stopLat |-> 0, stopLon |-> 0]>>
         \o ResolveStops_Synthesized(Tail(stopIds), stps)

\* stopIds.map((stopId) => this.stops.get(stopId)).filter(Boolean)
RECURSIVE ResolveStops(_, _)
ResolveStops(stopIds, stps) ==
    IF stopIds = <<>> THEN <<>>
    ELSE (IF MapHas(stps, Head(stopIds)) THEN <<MapGet(stps, Head(stopIds))>>
          ELSE <<>>)
         \o ResolveStops(Tail(stopIds), stps)

GetRouteWithStops(routeId) ==
    /\ phase = "ready"
    /\ call' = [op |-> "getRouteWithStops", key |-> routeId]
    /\ local' = <<>>
    /\ result' =
          LET got == RoutesGet(routes, routeId)
              stopIds == IF MapHas(routeStops, routeId)
                         THEN MapGet(routeStops, routeId) ELSE <<>>
          IN IF ~got.found THEN UndefinedObject
             ELSE [route |-> got.route, stops |-> ResolveStops(stopIds, stops)]
    /\ UNCHANGED <<phase, catalog, world>>

(***************************************************************************)
(* Vehicle positions: getVehiclePositions.  The vehicle-positions feed is  *)
(* feed.vehicles, fetched from its own URL.  An enum or number field that  *)
(* the feed omits reads as 0 after decoding, an omitted text as "", an     *)
(* omitted sub-message as absent.                                          *)
(***************************************************************************)
\* VehiclePosition.OccupancyStatus[n]
OccupancyStatusName(n) ==
    CASE n = 0 -> "EMPTY"
      [] n = 1 -> "MANY_SEATS_AVAILABLE"
      [] n = 2 -> "FEW_SEATS_AVAILABLE"
      [] n = 3 -> "STANDING_ROOM_ONLY"
      [] n = 4 -> "CRUSHED_STANDING_ROOM_ONLY"
      [] n = 5 -> "FULL"
      [] n = 6 -> "NOT_ACCEPTING_PASSENGERS"
      [] OTHER -> Undefined

\* VehiclePosition.CongestionLevel[n]
CongestionLevelName(n) ==
    CASE n = 0 -> "UNKNOWN_CONGESTION_LEVEL"
      [] n = 1 -> "RUNNING_SMOOTHLY"
      [] n = 2 -> "STOP_AND_GO"
      [] n = 3 -> "CONGESTION"
      [] n = 4 -> "SEVERE_CONGESTION"
      [] OTHER -> Undefined

\* vehicle.occupancyStatus ? OccupancyStatus[vehicle.occupancyStatus] : undefined
OccupancyOut(n) == IF n # 0 THEN OccupancyStatusName(n) ELSE Undefined

\* vehicle.congestionLevel ? CongestionLevel[vehicle.congestionLevel] : undefined
CongestionOut(n) == IF n # 0 THEN CongestionLevelName(n) ELSE Undefined

\* The route test left out.
VehiclePassesFilter_Always(routeId, hasTrip, tripRouteId) == TRUE

\* if (routeId && trip?.routeId !== routeId) return
VehiclePassesFilter(routeId, hasTrip, tripRouteId) ==
    ~(routeId # "" /\ (~hasTrip \/ tripRouteId # routeId))

\* n || undefined, for a number.
NumberOrUndefined(n) ==
    IF n # 0 THEN [defined |-> TRUE, value |-> n]
    ELSE [defined |-> FALSE, value |-> 0]

\* One VehiclePosition of the result.
VehicleOut(entity, clock) ==
    LET vehicle == entity.vehicle
    IN [vehicleId |-> IF vehicle.descriptorId # "" THEN vehicle.descriptorId
                      ELSE entity.id,
        routeId |-> IF vehicle.hasTrip THEN vehicle.trip.routeId ELSE "",
        tripId |-> IF vehicle.hasTrip /\ vehicle.trip.tripId # ""
                   THEN vehicle.trip.tripId ELSE Undefined,
        latitude |-> vehicle.position.latitude,
        longitude |-> vehicle.position.longitude,
        bearing |-> NumberOrUndefined(vehicle.position.bearing),
        speed |-> NumberOrUndefined(vehicle.position.speed),
        timestamp |-> IF vehicle.timestamp # 0 THEN vehicle.timestamp ELSE clock,
        occupancyStatus |-> OccupancyOut(vehicle.occupancyStatus),
        congestionLevel |-> CongestionOut(vehicle.congestionLevel)]

\* The body of the forEach: one feed entity.
VisitVehicle(vehicles, entity, routeId, clock) ==
    IF entity.kind = "vehicle" /\ entity.vehicle.hasPosition
    THEN IF VehiclePassesFilter(routeId, entity.vehicle.hasTrip,
                                entity.vehicle.trip.routeId)
         THEN Append(vehicles, VehicleOut(entity, clock))
         ELSE vehicles
    ELSE vehicles

RECURSIVE VisitVehicles(_, _, _, _)
VisitVehicles(vehicles, entities, routeId, clock) ==
    IF entities = <<>> THEN vehicles
    ELSE VisitVehicles(VisitVehicle(vehicles, Head(entities), routeId, clock),
                       Tail(entities), routeId, clock)

GetVehiclePositions(routeId) ==
    /\ phase = "ready"
    /\ call' = [op |-> "getVehiclePositions", routeFilter |-> routeId,
                currentTime |-> now, threw |-> feed.vehicles.status # "ok"]
    /\ local' = <<>>
    /\ result' = IF feed.vehicles.status # "ok" THEN <<>>
                 ELSE VisitVehicles(<<>>, feed.vehicles.entity, routeId, now)
    /\ UNCHANGED <<phase, catalog, world>>

(***************************************************************************)
(* Service alerts: getServiceAlerts.  The alerts feed is feed.alerts,      *)
(* fetched from its own URL.                                               *)
(***************************************************************************)
\* Alert.SeverityLevel[n]
SeverityLevelName(n) ==
    CASE n = 1 -> "UNKNOWN_SEVERITY"
      [] n = 2 -> "INFO"
      [] n = 3 -> "WARNING"
      [] n = 4 -> "SEVERE"
      [] OTHER -> Undefined

\* Alert.Effect[n]
EffectName(n) ==
    CASE n = 1 -> "NO_SERVICE"
      [] n = 2 -> "REDUCED_SERVICE"
      [] n = 3 -> "SIGNIFICANT_DELAYS"
      [] n = 4 -> "DETOUR"
      [] n = 5 -> "ADDITIONAL_SERVICE"
      [] n = 6 -> "MODIFIED_SERVICE"
      [] n = 7 -> "OTHER_EFFECT"
      [] n = 8 -> "UNKNOWN_EFFECT"
      [] n = 9 -> "STOP_MOVED"
      [] OTHER -> Undefined

\* alert.severityLevel ? SeverityLevel[alert.severityLevel] : undefined
SeverityOut(n) == IF n # 0 THEN SeverityLevelName(n) ELSE Undefined

\* alert.effect ? Effect[alert.effect] : undefined
EffectOut(n) == IF n # 0 THEN EffectName(n) ELSE Undefined

\* s || undefined, for a text.
TextOrUndefined(text) == IF text # "" THEN text ELSE Undefined

\* translation?.[0]?.text || ""
FirstTranslation(translations) ==
    IF translations = <<>> THEN "" ELSE translations[1]

\* Both filters must match the same informed entity.
MatchesFilter_Both(informedEntity, routeId, stopId) ==
    \E i \in 1..Len(informedEntity) :
        /\ routeId # "" => informedEntity[i].routeId = routeId
        /\ stopId # "" => informedEntity[i].stopId = stopId

\* alert.informedEntity?.some((informed) =>
\*     (routeId && informed.routeId === routeId) ||
\*     (stopId && informed.stopId === stopId))
MatchesFilter(informedEntity, routeId, stopId) ==
    \E i \in 1..Len(informedEntity) :
        \/ routeId # "" /\ informedEntity[i].routeId = routeId
        \/ stopId # "" /\ informedEntity[i].stopId = stopId

\* One ServiceAlert of the result.
AlertOut(entity) ==
    LET alert == entity.alert
    IN [alertId |-> entity.id,
        headerText |-> FirstTranslation(alert.headerText),
        descriptionText |-> FirstTranslation(alert.descriptionText),
        severity |-> SeverityOut(alert.severityLevel),
        effect |-> EffectOut(alert.effect),
        activePeriods |->
            [i \in 1..Len(alert.activePeriod) |->
                [start |-> NumberOrUndefined(alert.activePeriod[i].start),
                 end |-> NumberOrUndefined(alert.activePeriod[i].end)]],
        informedEntities |->
            [i \in 1..Len(alert.informedEntity) |->
                [routeId |-> TextOrUndefined(alert.informedEntity[i].routeId),
                 stopId |-> TextOrUndefined(alert.informedEntity[i].stopId),
                 agencyId |-> TextOrUndefined(alert.informedEntity[i].agencyId)]]]

\* The body of the forEach: one feed entity.
VisitAlert(alerts, entity, routeId, stopId) ==
    IF entity.kind = "alert"
    THEN IF (routeId # "" \/ stopId # "")
            /\ ~MatchesFilter(entity.alert.informedEntity, routeId, stopId)
         THEN alerts
         ELSE Append(alerts, AlertOut(entity))
    ELSE alerts

RECURSIVE VisitAlerts(_, _, _, _)
VisitAlerts(alerts, entities, routeId, stopId) ==
    IF entities = <<>> THEN alerts
    ELSE VisitAlerts(VisitAlert(alerts, Head(entities), routeId, stopId),
                     Tail(entities), routeId, stopId)

\* The failure of the fetch caught and answered with no alerts.
GetServiceAlerts_Swallowing(routeId, stopId) ==
    /\ phase = "ready"
    /\ call' = [op |-> "getServiceAlerts", routeFilter |-> routeId,
                stopFilter |-> stopId, threw |-> FALSE]
    /\ local' = <<>>
    /\ result' = IF feed.alerts.status # "ok" THEN <<>>
                 ELSE VisitAlerts(<<>>, feed.alerts.entity, routeId, stopId)
    /\ UNCHANGED <<phase, catalog, world>>

GetServiceAlerts(routeId, stopId) ==
    /\ phase = "ready"
    /\ call' = [op |-> "getServiceAlerts", routeFilter |-> routeId,
                stopFilter |-> stopId, threw |-> feed.alerts.status # "ok"]
    /\ local' = <<>>
    /\ result' = IF feed.alerts.status # "ok" THEN <<>>
                 ELSE VisitAlerts(<<>>, feed.alerts.entity, routeId, stopId)
    /\ UNCHANGED <<phase, catalog, world>>

(***************************************************************************)
(* The route wrappers: each awaits getNextArrivals or                      *)
(* getScheduledDepartures and hands on what it returned or threw.          *)
(***************************************************************************)
\* What getNextArrivals returns when its fetch succeeds.
NextArrivalsOf(stopId, routeFilter, maxArrivals) ==
    FormatArrivals(CollectArrivals(<<>>, feed.entity, stopId, routeFilter, now),
                   routes, trips, stopId, now, maxArrivals)

\* What getScheduledDepartures returns.
ScheduledDeparturesOf(stopId, routeFilter, maxDepartures) ==
    FormatDepartures(CollectDepartures(<<>>, stopTimes, trips, stopId,
                                       routeFilter, now),
                     routes, trips, stopId, now, maxDepartures)

Null == [null |-> TRUE]

\* list.length > 0 ? list[0] : null
FirstOrNull(list) == IF Len(list) > 0 THEN list[1] ELSE Null

\* The wrapper calling with the default of five.
ForRouteLimit_Default == DefaultMax

\* The third argument of the two "for route" wrappers.
ForRouteLimit == ForRouteMax

GetScheduledDeparturesForRoute(stopId, routeId) ==
    /\ phase = "ready"
    /\ call' = [op |-> "getScheduledDeparturesForRoute", stopId |-> stopId,
                routeFilter |-> routeId, currentTime |-> now, threw |-> FALSE]
    /\ local' = <<>>
    /\ result' = ScheduledDeparturesOf(stopId, routeId, ForRouteLimit)
    /\ UNCHANGED <<phase, catalog, world>>

GetNextScheduledDepartureForRoute(stopId, routeId) ==
    /\ phase = "ready"
    /\ call' = [op |-> "getNextScheduledDepartureForRoute", stopId |-> stopId,
                routeFilter |-> routeId, currentTime |-> now, threw |-> FALSE]
    /\ local' = <<>>
    /\ result' = FirstOrNull(ScheduledDeparturesOf(stopId, routeId, 1))
    /\ UNCHANGED <<phase, catalog, world>>

GetLiveArrivalsForRoute(stopId, routeId) ==
    /\ phase = "ready"
    /\ call' = [op |-> "getLiveArrivalsForRoute", stopId |-> stopId,
                routeFilter |-> routeId, currentTime |-> now,
                threw |-> feed.status # "ok"]
    /\ local' = <<>>
    /\ result' = IF feed.status # "ok" THEN <<>>
                 ELSE NextArrivalsOf(stopId, routeId, ForRouteLimit)
    /\ UNCHANGED <<phase, catalog, world>>

GetNextArrivalForRoute(stopId, routeId) ==
    /\ phase = "ready"
    /\ call' = [op |-> "getNextArrivalForRoute", stopId |-> stopId,
                routeFilter |-> routeId, currentTime |-> now,
                threw |-> feed.status # "ok"]
    /\ local' = <<>>
    /\ result' = IF feed.status # "ok" THEN <<>>
                 ELSE FirstOrNull(NextArrivalsOf(stopId, routeId, 1))
    /\ UNCHANGED <<phase, catalog, world>>

(***************************************************************************)
(* The web layer: what the endpoint of the last operation answers.         *)
(***************************************************************************)
\* createErrorResponse under res.status(code)
ErrorResponse(code) == [status |-> code, success |-> FALSE, count |-> 0]

\* createSuccessResponse with the count the endpoint reports
SuccessResponse(count) == [status |-> 200, success |-> TRUE, count |-> count]

\* The endpoints that answer 404 when the service returns null.
NextEndpoints == {"getNextArrivalForRoute", "getNextScheduledDepartureForRoute"}

\* The endpoints that answer with the list the service returns.
ListEndpoints ==
    {"getNextArrivals", "getLiveArrivalsForRoute", "getScheduledDepartures",
     "getScheduledDeparturesForRoute", "getVehiclePositions", "getServiceAlerts"}

\* handleAsync around the endpoint's handler: a rejected promise is answered
\* with 500, anything else by the handler.
HandlerResponse ==
    IF call.threw THEN ErrorResponse(500)
    ELSE IF call.op \in NextEndpoints
         THEN IF result = Null THEN ErrorResponse(404) ELSE SuccessResponse(1)
         ELSE SuccessResponse(Len(result))

(***************************************************************************)
(* The world the service runs in: the bundle behind the static URL, the    *)
(* feed behind the realtime URL, the clock.                                *)
(***************************************************************************)
AllFiles == {"routes.txt", "trips.txt", "stops.txt", "stop_times.txt"}

\* Day 10 of the epoch, 09:00:00.
Now0 == 10 * 86400 + 9 * 3600

BaseRoutes ==
    << <<"1", "1", "University/Downtown", "3", "0000FF", "FFFFFF">>,
       <<"2", "2", "Harbour", "3", "", "">> >>

\* T9 runs on route "9", which routes.txt does not list.
BaseTrips ==
    << <<"1", "wk", "T1", "Downtown">>,
       <<"1", "wk", "T2", "University">>,
       <<"2", "wk", "T3", "Harbour">>,
       <<"1", "wk", "T4", "Express">>,
       <<"9", "wk", "T9", "Depot">> >>

BaseStops ==
    << [stop_id |-> "S100", stop_name |-> "Douglas", stop_lat |-> "48.4284",
        stop_lon |-> "-123.3656"],
       [stop_id |-> "S200", stop_name |-> "", stop_lat |-> "48.4300",
        stop_lon |-> "-123.3656"],
       [stop_id |-> "S300", stop_name |-> "Uptown", stop_lat |-> "48.4500",
        stop_lon |-> "-123.3700"] >>

BundleWith(stopTimeLines) ==
    [status |-> "ok", files |-> AllFiles, routes |-> BaseRoutes, trips |-> BaseTrips,
     stops |-> BaseStops, stopTimes |-> stopTimeLines]

OkFeed(entities) == [status |-> "ok", entity |-> entities]

StopTimeUpdate(stopId, time, delay, rel) ==
    [stopId |-> stopId,
     arrival |-> [present |-> TRUE, time |-> time, delay |-> delay],
     scheduleRelationship |-> rel]

\* A stop-time update that carries a departure only.
DepartureOnlyUpdate(stopId) ==
    [stopId |-> stopId,
     arrival |-> [present |-> FALSE, time |-> 0, delay |-> 0],
     scheduleRelationship |-> 0]

TripUpdate(tripId, routeId, updates) ==
    [kind |-> "tripUpdate", trip |-> [tripId |-> tripId, routeId |-> routeId],
     stopTimeUpdate |-> updates]

(***************************************************************************)
(* Specification of the status classifier alone.                           *)
(***************************************************************************)
InitStatus ==
    /\ Constructed
    /\ bundle = BundleWith(<<>>)
    /\ feed = OkFeed(<<>>)
    /\ now = Now0

\* Delays on both sides of the two thresholds, in seconds.
DelayValues == {-90, -61, -60, -59, 0, 299, 300, 301, 310, 400}

NextStatus ==
    \E m \in -1..MaxMinutes, d \in DelayValues : ClassifyArrival(m, d)

SpecStatus == InitStatus /\ [][NextStatus]_vars

(***************************************************************************)
(* C3.  The arrival status is decided by the first matching rule, in the   *)
(* order: minutesUntil <= 1 "Arriving"; minutesUntil <= 2 "Due";           *)
(* delaySeconds > 300 "Delayed"; delaySeconds < -60 "Early"; otherwise     *)
(* "{minutesUntil} min".  In particular (2, 400) is "Due", (10, 310) is    *)
(* "Delayed", (10, -90) is "Early" and (10, 0) is "10 min".                *)
(***************************************************************************)
C3_StatusFirstMatchingRule ==
    call.op = "getArrivalStatus" =>
        LET m == call.minutesUntil
            d == call.delaySeconds
        IN /\ m <= 1 => result = "Arriving"
           /\ m = 2 => result = "Due"
           /\ (m > 2 /\ d > 300) => result = "Delayed"
           /\ (m > 2 /\ d <= 300 /\ d < -60) => result = "Early"
           /\ (m > 2 /\ d <= 300 /\ d >= -60) =>
                 /\ result \notin {"Arriving", "Due", "Delayed", "Early"}
                 /\ result = ToString(m) \o " min"
           /\ (m = 1 /\ d = 400) => result = "Arriving"
           /\ (m = 2 /\ d = 400) => result = "Due"
           /\ (m = 10 /\ d = 310) => result = "Delayed"
           /\ (m = 10 /\ d = -90) => result = "Early"
           /\ (m = 10 /\ d = 0) => result = "10 min"

C3_Witness ==
    /\ call.op = "getArrivalStatus"
    /\ call.minutesUntil = 2
    /\ call.delaySeconds = 400
    /\ result = "Due"

(***************************************************************************)
(* Specification of the live arrivals query.  The feeds are of two kinds:  *)
(* one trip update with one stop-time update, over every combination of    *)
(* its fields; and up to MaxEntities trip updates of three routes.         *)
(***************************************************************************)
BoundaryOffsets ==
    {-1, 0, 1, ArrivalWindow - 1, ArrivalWindow, ArrivalWindow + 1}

BoundaryUpdates ==
    {StopTimeUpdate(s, Now0 + o, 0, 0) : s \in {"S100", "S200"}, o \in BoundaryOffsets}
    \cup {StopTimeUpdate("S100", 0, 0, 0), DepartureOnlyUpdate("S100")}

BoundaryFeeds ==
    {OkFeed(<<TripUpdate(tid, rid, <<u>>)>>) :
        tid \in {"T1", ""}, rid \in {"1", "9", ""}, u \in BoundaryUpdates}

\* Route "1" is served by T1 and T2, route "2" by T3, route "9" by T9.
GroupTrip(routeId, offset) ==
    CASE routeId = "1" /\ offset = 60 -> "T1"
      [] routeId = "1" -> "T2"
      [] routeId = "2" -> "T3"
      [] OTHER -> "T9"

GroupEntities ==
    {TripUpdate(GroupTrip(r, o), r, <<StopTimeUpdate("S100", Now0 + o, 0, 1)>>) :
        r \in {"1", "2", "9"}, o \in {60, 200}}
    \cup {TripUpdate("T1", "1", <<StopTimeUpdate("S200", Now0 + 90, 0, 1),
                                  StopTimeUpdate("S100", Now0 + 120, 310, 0)>>)}

GroupFeeds == {OkFeed(es) : es \in SeqsUpTo(GroupEntities, MaxEntities)}

BadFeeds == {[status |-> "http_error", entity |-> <<>>],
             [status |-> "decode_error", entity |-> <<>>]}

ArrivalFeeds == BoundaryFeeds \cup GroupFeeds \cup BadFeeds

RouteFilters == {"", "1", "9"}
Maxes == (1..MaxPerRoute) \cup {DefaultMax}

InitArrivals ==
    /\ Constructed
    /\ bundle = BundleWith(<<>>)
    /\ feed \in ArrivalFeeds
    /\ now = Now0

NextArrivals ==
    \/ Initialize
    \/ \E f \in RouteFilters, m \in Maxes : GetNextArrivals("S100", f, m)

SpecArrivals == InitArrivals /\ [][NextArrivals]_vars

\* Whether the arrivals map holds an entry of this route, trip and time.
Survives(routeId, tripId, t) ==
    /\ MapHas(local, routeId)
    /\ \E k \in 1..Len(MapGet(local, routeId)) :
          /\ MapGet(local, routeId)[k].time = t
          /\ MapGet(local, routeId)[k].tripId = tripId

ArrivalsReturned == call.op = "getNextArrivals" /\ ~call.threw

(***************************************************************************)
(* C1.  In getNextArrivals at clock value now, a stop-time update for the  *)
(* requested stop that has an arrival time t, a tripId and a routeId and   *)
(* passes the route filter survives filtering if and only if               *)
(* now < t < now + 7200: now + 7199 is kept; now - 1, now, now + 7200 and  *)
(* now + 7201 are dropped.                                                 *)
(***************************************************************************)
C1_ArrivalWindow ==
    ArrivalsReturned =>
        \A i \in 1..Len(feed.entity) :
            \A j \in 1..Len(feed.entity[i].stopTimeUpdate) :
                LET e == feed.entity[i]
                    u == e.stopTimeUpdate[j]
                    t == u.arrival.time
                    c == call.currentTime
                    kept == Survives(e.trip.routeId, e.trip.tripId, t)
                IN (/\ u.stopId = call.stopId
                    /\ u.arrival.present /\ t # 0
                    /\ e.trip.tripId # "" /\ e.trip.routeId # ""
                    /\ (call.routeFilter = "" \/ e.trip.routeId = call.routeFilter))
                   => /\ kept <=> (c < t /\ t < c + 7200)
                      /\ t = c + 7199 => kept
                      /\ t \in {c - 1, c, c + 7200, c + 7201} => ~kept

C1_Witness ==
    /\ ArrivalsReturned
    /\ Len(feed.entity) = 1
    /\ feed.entity[1].stopTimeUpdate[1].arrival.time = call.currentTime + 7199
    /\ Survives(feed.entity[1].trip.routeId, feed.entity[1].trip.tripId,
                call.currentTime + 7199)

\* How many entries of a list carry the time t.
CountTime(entries, t) == Cardinality({k \in 1..Len(entries) : entries[k].time = t})

Min(a, b) == IF a <= b THEN a ELSE b

(***************************************************************************)
(* C2.  The result of getNextArrivals holds at most one BusArrival per     *)
(* routeId; in each BusArrival the arrivalTimes are in non-decreasing      *)
(* order of time, number at most maxPerRoute, and are the soonest ones of  *)
(* that route: no surviving update of the route that was left out has an   *)
(* earlier time than one that was kept.                                    *)
(***************************************************************************)
C2_SoonestPerRoute ==
    ArrivalsReturned =>
        /\ \A i, j \in 1..Len(result) :
              result[i].routeId = result[j].routeId => i = j
        /\ \A i \in 1..Len(result) :
              LET kept == result[i].arrivalTimes
                  rid == result[i].routeId
              IN /\ MapHas(local, rid)
                 /\ \A k \in 1..(Len(kept) - 1) : kept[k].time <= kept[k + 1].time
                 /\ Len(kept) <= call.max
                 /\ Len(kept) = Min(call.max, Len(MapGet(local, rid)))
                 /\ \A k \in 1..Len(kept) :
                       CountTime(kept, kept[k].time)
                           <= CountTime(MapGet(local, rid), kept[k].time)
                 /\ \A s \in 1..Len(MapGet(local, rid)) :
                       LET t == MapGet(local, rid)[s].time
                       IN CountTime(kept, t) < CountTime(MapGet(local, rid), t)
                          => \A k \in 1..Len(kept) : kept[k].time <= t

\* Three surviving updates of one route, out of order in the feed, cut to two.
C2_Witness ==
    /\ ArrivalsReturned
    /\ call.max = 2
    /\ Len(result) = 1
    /\ Len(result[1].arrivalTimes) = 2
    /\ Len(MapGet(local, result[1].routeId)) = 3
    /\ MapGet(local, result[1].routeId)[1].time
           > MapGet(local, result[1].routeId)[3].time
    /\ result[1].arrivalTimes[1].time < result[1].arrivalTimes[2].time

(***************************************************************************)
(* C7.  A trip update that refers to a routeId with no entry in the route  *)
(* index produces no BusArrival for that route and raises no error:        *)
(* getNextArrivals still returns the BusArrivals of the other routes, and  *)
(* the route index is not changed.                                         *)
(***************************************************************************)
C7_UnknownRouteDropped ==
    (call.op = "getNextArrivals" /\ feed.status = "ok") =>
        /\ ~call.threw
        /\ \A i \in 1..Len(result) : MapHas(routes, result[i].routeId)
        /\ \A g \in 1..Len(local) :
              MapHas(routes, local[g].key)
                  => \E i \in 1..Len(result) :
                        /\ result[i].routeId = local[g].key
                        /\ result[i].arrivalTimes # <<>>
        /\ routes = LoadRoutes(<<>>, bundle.routes)
        /\ ~MapHas(routes, "9")

\* Updates of the unknown route "9" and of route "1" both survive the filter.
C7_Witness ==
    /\ call.op = "getNextArrivals" /\ ~call.threw
    /\ MapHas(local, "9") /\ MapHas(local, "1")
    /\ local[1].key = "9"
    /\ Len(result) = 1
    /\ result[1].routeId = "1"

(***************************************************************************)
(* Specification of the scheduled departures query.  stop_times.txt is of  *)
(* two kinds: one line of trip T1 at stop S100, over the departure times   *)
(* around the window's two ends and the unusable lines; and up to          *)
(* MaxStopTimeRows lines of five trips.                                    *)
(***************************************************************************)
StopTimeLine(tripId, stopId, time, seq) ==
    [trip_id |-> tripId, arrival_time |-> time, departure_time |-> time,
     stop_id |-> stopId, stop_sequence |-> seq]

\* The clock is at 09:00:00: these are now - 1, now, now + 1, the day's last
\* second, and the times past midnight up to now + 86400 + 1.
BoundaryTimes ==
    { <<8, 59, 59>>, <<9, 0, 0>>, <<9, 0, 1>>, <<23, 59, 59>>, <<24, 30, 0>>,
      <<32, 59, 59>>, <<33, 0, 0>>, <<33, 0, 1>> }

BoundaryLines ==
    {StopTimeLine("T1", "S100", t, "1") : t \in BoundaryTimes}
    \cup {StopTimeLine("T1", "S100", <<10, 0, 0>>, "x"),
          StopTimeLine("TX", "S100", <<10, 0, 0>>, "1"),
          StopTimeLine("T1", "S100", <<>>, "1"),
          StopTimeLine("", "S100", <<10, 0, 0>>, "1")}

\* T1, T2 and T4 run on route "1", T3 on route "2", T9 on the unlisted "9".
GroupLines ==
    {StopTimeLine("T1", "S100", <<10, 0, 0>>, "1"),
     StopTimeLine("T2", "S100", <<10, 0, 0>>, "1"),
     StopTimeLine("T1", "S100", <<10, 30, 0>>, "2"),
     StopTimeLine("T4", "S100", <<11, 0, 0>>, "1"),
     StopTimeLine("T3", "S100", <<10, 0, 0>>, "1"),
     StopTimeLine("T9", "S100", <<10, 0, 0>>, "1"),
     StopTimeLine("T2", "S200", <<8, 0, 0>>, "0")}

DepartureBundles ==
    {BundleWith(<<l>>) : l \in BoundaryLines}
    \cup {BundleWith(ls) : ls \in SeqsUpTo(GroupLines, MaxStopTimeRows)}

InitDepartures ==
    /\ Constructed
    /\ bundle \in DepartureBundles
    /\ feed = [status |-> "http_error", entity |-> <<>>]
    /\ now = Now0

NextDepartures ==
    \/ Initialize
    \/ \E f \in RouteFilters, m \in Maxes : GetScheduledDepartures("S100", f, m)

SpecDepartures == InitDepartures /\ [][NextDepartures]_vars

DeparturesReturned == call.op = "getScheduledDepartures"

\* The departures of route rid the scan collected, before deduplication.
Collected(rid) == IF MapHas(local, rid) THEN MapGet(local, rid) ELSE <<>>

CollectedTimes(rid) == {Collected(rid)[k].time : k \in 1..Len(Collected(rid))}

\* Whether t is one of the n smallest members of the set T.
AmongSoonest(t, T, n) == t \in T /\ Cardinality({u \in T : u < t}) < n

(***************************************************************************)
(* C4.  In getScheduledDepartures, within each route's BusDeparture no two *)
(* departure entries have the same timestamp: when several trips of one    *)
(* route depart the requested stop at the same converted timestamp,        *)
(* exactly one entry for that timestamp is in the result (given that the   *)
(* timestamp is among the maxPerRoute soonest of the route), and it is the *)
(* one of the first such trip encountered.                                 *)
(***************************************************************************)
C4_DepartureDedup ==
    DeparturesReturned =>
        \A i \in 1..Len(result) :
            LET ents == result[i].departureTimes
                rid == result[i].routeId
                coll == Collected(rid)
            IN /\ \A k, l \in 1..Len(ents) : ents[k].time = ents[l].time => k = l
               /\ \A c \in 1..Len(coll) :
                     AmongSoonest(coll[c].time, CollectedTimes(rid), call.max)
                         => Cardinality({k \in 1..Len(ents) :
                                            ents[k].time = coll[c].time}) = 1
               /\ \A k \in 1..Len(ents) :
                     \E c \in 1..Len(coll) :
                         /\ coll[c].time = ents[k].time
                         /\ \A b \in 1..(c - 1) : coll[b].time # ents[k].time
                         /\ ents[k].headsign = Headsign(trips, coll[c].tripId)

\* T2 and then T1 depart route "1" at the same timestamp: one entry, T2's.
C4_Witness ==
    /\ DeparturesReturned
    /\ Len(result) = 1
    /\ result[1].routeId = "1"
    /\ Len(Collected("1")) = 2
    /\ Collected("1")[1].tripId = "T2"
    /\ Collected("1")[2].tripId = "T1"
    /\ Collected("1")[1].time = Collected("1")[2].time
    /\ Len(result[1].departureTimes) = 1
    /\ result[1].departureTimes[1].headsign = "University"

\* The entries of the stop-time index whose trip is loaded and runs on rid.
TripsOn(rid) ==
    {g \in 1..Len(stopTimes) :
        /\ MapHas(trips, stopTimes[g].key)
        /\ MapGet(trips, stopTimes[g].key).routeId = rid}

WithinDay(t) == call.currentTime < t /\ t < call.currentTime + 86400

\* The converted departure timestamps, within the next 24 hours, of every
\* stop time that a trip of route rid has at the requested stop.
AllDepartureTimes(rid) ==
    {t \in UNION {{parseGtfsTime(stopTimes[g].val[k].departureTime,
                                  call.currentTime) :
                        k \in {x \in 1..Len(stopTimes[g].val) :
                                  stopTimes[g].val[x].stopId = call.stopId}} :
                    g \in TripsOn(rid)} :
        WithinDay(t)}

\* The same, each trip counted only at its first stop time at the stop.
FirstDepartureTimes(rid) ==
    {t \in {parseGtfsTime(
                stopTimes[g].val[FindStopTime(stopTimes[g].val, call.stopId)]
                    .departureTime, call.currentTime) :
                g \in {x \in TripsOn(rid) :
                          FindStopTime(stopTimes[x].val, call.stopId) # 0}} :
        WithinDay(t)}

\* The entries of one BusDeparture are in the window, ascending, at most max,
\* and exactly the max soonest members of T.
SoonestOf(ents, T) ==
    /\ \A k \in 1..Len(ents) : WithinDay(ents[k].time)
    /\ \A k \in 1..(Len(ents) - 1) : ents[k].time < ents[k + 1].time
    /\ Len(ents) <= call.max
    /\ {ents[k].time : k \in 1..Len(ents)}
           = {t \in T : AmongSoonest(t, T, call.max)}

(***************************************************************************)
(* C5, as stated.  Every departure entry returned by getScheduledDepartures*)
(* at clock value now has a timestamp t with now < t < now + 86400; in     *)
(* each BusDeparture the entries are sorted ascending by t, are at most    *)
(* maxPerRoute and are the soonest distinct timestamps of that route at    *)
(* that stop.                                                              *)
(***************************************************************************)
C5_Original_SoonestOfAllStopTimes ==
    DeparturesReturned =>
        \A i \in 1..Len(result) :
            SoonestOf(result[i].departureTimes, AllDepartureTimes(result[i].routeId))

(***************************************************************************)
(* What holds in place of C5.  Every departure entry returned by getScheduledDepartures  *)
(* at clock value now has a timestamp t with now < t < now + 86400; in     *)
(* each BusDeparture the entries are sorted ascending by t, are at most    *)
(* maxPerRoute and are the soonest distinct timestamps of that route at    *)
(* that stop, each trip being counted only at its first stop time (in      *)
(* stopSequence order) at the stop.                                        *)
(***************************************************************************)
C5_SoonestOfFirstStopTimes ==
    DeparturesReturned =>
        \A i \in 1..Len(result) :
            SoonestOf(result[i].departureTimes, FirstDepartureTimes(result[i].routeId))

\* Three trips of route "1" depart at three timestamps; the two soonest stay.
C5_Witness ==
    /\ DeparturesReturned
    /\ call.max = 2
    /\ Len(result) = 1
    /\ Cardinality(FirstDepartureTimes(result[1].routeId)) = 3
    /\ Len(result[1].departureTimes) = 2
    /\ Collected(result[1].routeId)[1].time > Collected(result[1].routeId)[2].time

(***************************************************************************)
(* Specification of the two stop queries side by side: either the feed     *)
(* varies over an empty schedule, or the schedule varies.                  *)
(***************************************************************************)
InitQueries ==
    /\ Constructed
    /\ now = Now0
    /\ \/ bundle = BundleWith(<<>>) /\ feed \in GroupFeeds
       \/ bundle \in DepartureBundles /\ feed = OkFeed(<<>>)

NextQueries ==
    \/ Initialize
    \/ \E f \in RouteFilters, m \in Maxes : GetNextArrivals("S100", f, m)
    \/ \E f \in RouteFilters, m \in Maxes : GetScheduledDepartures("S100", f, m)

SpecQueries == InitQueries /\ [][NextQueries]_vars

\* A feed entity of the filtered route.
EntityOfFilter(e) == e.trip.routeId = call.routeFilter

\* An entry of the stop-time index whose trip runs on the filtered route.
TripOfFilter(e) ==
    MapHas(trips, e.key) /\ MapGet(trips, e.key).routeId = call.routeFilter

(***************************************************************************)
(* C6.  When a non-empty route filter is given, every BusArrival returned  *)
(* by getNextArrivals and every BusDeparture returned by                   *)
(* getScheduledDepartures has routeId equal to the filter, so the result   *)
(* has at most one element; updates and trips of any other route never     *)
(* contribute to it: the result is the one an unfiltered query gives on    *)
(* the feed, or the schedule, with every other route taken out.            *)
(***************************************************************************)
C6_RouteFilter ==
    (/\ call.op \in {"getNextArrivals", "getScheduledDepartures"}
     /\ ~call.threw
     /\ call.routeFilter # "") =>
        /\ \A i \in 1..Len(result) : result[i].routeId = call.routeFilter
        /\ Len(result) <= 1
        /\ \A g \in 1..Len(local) : local[g].key = call.routeFilter
        /\ call.op = "getNextArrivals" =>
              result = FormatArrivals(
                          CollectArrivals(<<>>, SelectSeq(feed.entity, EntityOfFilter),
                                          call.stopId, "", call.currentTime),
                          routes, trips, call.stopId, call.currentTime, call.max)
        /\ call.op = "getScheduledDepartures" =>
              result = FormatDepartures(
                          CollectDepartures(<<>>, SelectSeq(stopTimes, TripOfFilter),
                                            trips, call.stopId, "", call.currentTime),
                          routes, trips, call.stopId, call.currentTime, call.max)

\* Trips of routes "1" and "2" both depart the stop in the window; the query
\* filtered on "1" returns route "1" alone.
C6_Witness ==
    /\ call.op = "getScheduledDepartures"
    /\ call.routeFilter = "1"
    /\ \E g \in 1..Len(stopTimes) :
          /\ MapHas(trips, stopTimes[g].key)
          /\ MapGet(trips, stopTimes[g].key).routeId = "2"
          /\ FindStopTime(stopTimes[g].val, call.stopId) # 0
    /\ Len(result) = 1
    /\ result[1].routeId = "1"
    /\ result[1].departureTimes # <<>>

(***************************************************************************)
(* Specification of the nearby-stops query: stops.txt holds up to MaxStops *)
(* lines; two of the stops lie 22 cm apart, one lies kilometres away.      *)
(***************************************************************************)
StopLine(stopId, lat, lon) ==
    [stop_id |-> stopId, stop_name |-> stopId, stop_lat |-> lat, stop_lon |-> lon]

NearbyStopLines ==
    {StopLine("S100", "48.4284", "-123.3656"),
     StopLine("SA", "48.429302", "-123.3656"),
     StopLine("SB", "48.429300", "-123.3656"),
     StopLine("S200", "48.4300", "-123.3656"),
     StopLine("S300", "48.4500", "-123.3700")}

\* The positions of S100 and of S200, and a point that is no stop's.
QueryPoints ==
    {[lat |-> 48428400, lon |-> -123365600],
     [lat |-> 48430000, lon |-> -123365600],
     [lat |-> 48429000, lon |-> -123366000]}

\* In centimetres: below zero, zero, the distance from S100 to SA and one
\* centimetre either side of it, the default of 500 m.
Radii == {-100, 0, 1, 10029, 10030, 10031, 50000}

InitNearby ==
    /\ Constructed
    /\ \E lines \in SeqsUpTo(NearbyStopLines, MaxStops) :
          bundle = [BundleWith(<<>>) EXCEPT !.stops = lines]
    /\ feed = OkFeed(<<>>)
    /\ now = Now0

NextNearby ==
    \/ Initialize
    \/ \E q \in QueryPoints, r \in Radii : GetNearbyStops(q.lat, q.lon, r)

SpecNearby == InitNearby /\ [][NextNearby]_vars

NearbyReturned == call.op = "getNearbyStops"

\* The distance of a loaded stop from the query point of the call.
FromQuery(stop) ==
    calculateDistance(call.latitude, call.longitude, stop.stopLat, stop.stopLon)

\* The places of the result that hold the stop.
PlacesOf(stop) == {k \in 1..Len(result) : result[k].stop = stop}

C9_Original_NonPositiveRadiusEmpty ==
    (NearbyReturned /\ call.radius <= 0) => result = <<>>

\* A loaded stop that lies exactly at the query point of the call.
AtQueryPoint(stop) ==
    stop.stopLat = call.latitude /\ stop.stopLon = call.longitude

(***************************************************************************)
(* C9, amended.  getNearbyStops called with radius < 0 returns an empty    *)
(* list, for every query point and every set of loaded stops; called with  *)
(* radius = 0 it returns the loaded stops located exactly at the query     *)
(* point, each with distance 0, and nothing else.                          *)
(***************************************************************************)
C9_NonPositiveRadius ==
    NearbyReturned =>
        /\ call.radius < 0 => result = <<>>
        /\ call.radius = 0 =>
              /\ \A g \in 1..Len(stops) :
                    AtQueryPoint(stops[g].val) <=> PlacesOf(stops[g].val) # {}
              /\ \A k \in 1..Len(result) :
                    /\ AtQueryPoint(result[k].stop)
                    /\ result[k].distance = 0
                    /\ PlacesOf(result[k].stop) = {k}

\* Radius 0 at the position of a loaded stop: that stop alone is returned.
C9_Witness ==
    /\ NearbyReturned
    /\ call.radius = 0
    /\ Len(stops) >= 2
    /\ Len(result) = 1
    /\ AtQueryPoint(result[1].stop)

(***************************************************************************)
(* Specification of the trip lookup: stop_times.txt holds up to            *)
(* MaxStopTimeRows lines, out of stop_sequence order, of a trip on a       *)
(* listed route, of a trip on the unlisted route "9" and of a trip that    *)
(* trips.txt does not have.                                                *)
(***************************************************************************)
TripLines ==
    {StopTimeLine("T1", "S300", <<10, 20, 0>>, "3"),
     StopTimeLine("T1", "S100", <<10, 0, 0>>, "1"),
     StopTimeLine("T1", "S200", <<10, 10, 0>>, "2"),
     StopTimeLine("T1", "S100", <<10, 15, 0>>, "2"),
     StopTimeLine("T1", "S200", <<10, 5, 0>>, "x"),
     StopTimeLine("T9", "S100", <<10, 0, 0>>, "1"),
     StopTimeLine("TX", "S100", <<10, 0, 0>>, "1")}

TripIds == {"T1", "T2", "T9", "TX"}

InitTrips ==
    /\ Constructed
    /\ bundle \in {BundleWith(ls) : ls \in SeqsUpTo(TripLines, MaxStopTimeRows)}
    /\ feed = OkFeed(<<>>)
    /\ now = Now0

NextTrips ==
    \/ Initialize
    \/ \E t \in TripIds : GetTripDetails(t)

SpecTrips == InitTrips /\ [][NextTrips]_vars

\* The call asked for a trip that trips.txt gave.
LoadedTripAsked ==
    /\ call.op = "getTripDetails"
    /\ \E i \in 1..Len(bundle.trips) : bundle.trips[i][3] = call.tripId

\* The route of the asked trip is one that routes.txt gave.
RouteOfTripLoaded ==
    \E i \in 1..Len(bundle.trips) :
        /\ bundle.trips[i][3] = call.tripId
        /\ \E j \in 1..Len(bundle.routes) :
              bundle.routes[j][1] = bundle.trips[i][1]

\* The stop times of the details are in non-decreasing stopSequence order.
DetailsSorted ==
    /\ result # UndefinedDetails
    /\ \A k \in 1..(Len(result.stopTimes) - 1) :
          result.stopTimes[k].stopSequence <= result.stopTimes[k + 1].stopSequence

(***************************************************************************)
(* C10, as stated.  For every trip loaded from trips.txt,                  *)
(* getTripDetails(tripId) returns details whose stopTimes are sorted       *)
(* ascending by stopSequence.                                              *)
(***************************************************************************)
C10_Original_EveryLoadedTrip ==
    LoadedTripAsked => DetailsSorted

(***************************************************************************)
(* C10, amended.  For every trip loaded from trips.txt whose route is in   *)
(* the route index, getTripDetails(tripId) returns details whose stopTimes *)
(* are sorted ascending by stopSequence, and they are the trip's accepted  *)
(* lines of stop_times.txt; for a loaded trip whose route is not in the    *)
(* route index it returns undefined.                                       *)
(***************************************************************************)
C10_TripDetailsSorted ==
    LoadedTripAsked =>
        /\ RouteOfTripLoaded =>
              /\ DetailsSorted
              /\ result.trip.tripId = call.tripId
              /\ Len(result.stopTimes)
                    = Cardinality({i \in 1..Len(bundle.stopTimes) :
                                      /\ bundle.stopTimes[i].trip_id = call.tripId
                                      /\ ~ParseInt(bundle.stopTimes[i].stop_sequence).isNaN})
        /\ ~RouteOfTripLoaded => result = UndefinedDetails

\* Three lines of T1 in the file order 3, 1, 2 come back as 1, 2, 3.
C10_Witness ==
    /\ LoadedTripAsked
    /\ Len(bundle.stopTimes) = 3
    /\ bundle.stopTimes[1].stop_sequence = "3"
    /\ bundle.stopTimes[2].stop_sequence = "1"
    /\ result # UndefinedDetails
    /\ Len(result.stopTimes) = 3
    /\ result.stopTimes[1].stopSequence = 1
    /\ result.stopTimes[3].stopSequence = 3

(***************************************************************************)
(* Specification of the catalog lookups.  stop_times.txt holds up to       *)
(* MaxStopTimeRows lines; one of them names the stop S999, which stops.txt *)
(* does not have, and one a trip of the unlisted route "9".                *)
(***************************************************************************)
CatalogLines ==
    {StopTimeLine("T1", "S300", <<10, 0, 0>>, "1"),
     StopTimeLine("T1", "S999", <<10, 10, 0>>, "2"),
     StopTimeLine("T1", "S100", <<10, 20, 0>>, "3"),
     StopTimeLine("T2", "S100", <<11, 0, 0>>, "1"),
     StopTimeLine("T2", "S200", <<11, 10, 0>>, "2"),
     StopTimeLine("T3", "S999", <<12, 0, 0>>, "1"),
     StopTimeLine("T9", "S100", <<12, 0, 0>>, "1"),
     StopTimeLine("TX", "S200", <<12, 0, 0>>, "1")}

StopKeys == {"S100", "S300", "S999"}
RouteKeys == {"1", "2", "9", "77"}

InitCatalog ==
    /\ Constructed
    /\ bundle \in {BundleWith(ls) : ls \in SeqsUpTo(CatalogLines, MaxStopTimeRows)}
    /\ feed = OkFeed(<<>>)
    /\ now = Now0

NextCatalog ==
    \/ Initialize
    \/ \E k \in StopKeys : GetStop(k)
    \/ GetAllRoutes
    \/ \E k \in RouteKeys : GetRoute(k)
    \/ \E k \in RouteKeys : GetRouteWithStops(k)
    \/ \E t \in TripIds : GetTripDetails(t)

SpecCatalog == InitCatalog /\ [][NextCatalog]_vars

\* Whether a stopId of the mapping resolves in the stop index.
IsStop(stopId) == \E g \in 1..Len(stops) : stops[g].key = stopId

\* The stopIds the RouteStops mapping holds for the asked route.
MappingOfAsked ==
    IF \E g \in 1..Len(routeStops) : routeStops[g].key = call.key
    THEN routeStops[CHOOSE g \in 1..Len(routeStops) : routeStops[g].key = call.key].val
    ELSE <<>>

(***************************************************************************)
(* C11.  getRouteWithStops(routeId) returns absent for a routeId not in    *)
(* the route index, and otherwise a stops list in which every stop is an   *)
(* entry of the stop index: stopIds of the RouteStops mapping that do not  *)
(* resolve are dropped, and the order of the remaining stops is that of    *)
(* the mapping.                                                            *)
(***************************************************************************)
C11_RouteWithStopsResolved ==
    call.op = "getRouteWithStops" =>
        IF \A g \in 1..Len(routes) : routes[g].key # call.key
        THEN result = UndefinedObject
        ELSE /\ result # UndefinedObject
             /\ \E g \in 1..Len(routes) :
                   routes[g].key = call.key /\ routes[g].val = result.route
             /\ \A k \in 1..Len(result.stops) :
                   \E g \in 1..Len(stops) : stops[g].val = result.stops[k]
             /\ [k \in 1..Len(result.stops) |-> result.stops[k].stopId]
                   = SelectSeq(MappingOfAsked, IsStop)

\* The mapping of route "1" is S300, S999, S100; S999 is dropped.
C11_Witness ==
    /\ call.op = "getRouteWithStops"
    /\ call.key = "1"
    /\ MappingOfAsked = <<"S300", "S999", "S100">>
    /\ result # UndefinedObject
    /\ Len(result.stops) = 2
    /\ result.stops[1].stopId = "S300"
    /\ result.stops[2].stopId = "S100"

(***************************************************************************)
(* Specification of the whole service after startup: every query, and the  *)
(* three realtime feeds, each of which answers, fails with a non-2xx       *)
(* status or sends bytes that do not decode, and changes between queries.  *)
(***************************************************************************)
VehicleEntity(id, descriptorId, hasPosition, hasTrip, tripId, routeId, occupancyStatus, congestionLevel, given) ==
    [kind |-> "vehicle", id |-> id, given |-> given,
     vehicle |-> [descriptorId |-> descriptorId,
                  hasPosition |-> hasPosition,
                  position |-> [latitude |-> 48428400, longitude |-> -123365600,
                                bearing |-> 0, speed |-> 12],
                  hasTrip |-> hasTrip,
                  trip |-> [tripId |-> tripId, routeId |-> routeId],
                  timestamp |-> 0,
                  occupancyStatus |-> occupancyStatus,
                  congestionLevel |-> congestionLevel]]

InformedEntity(routeId, stopId) ==
    [routeId |-> routeId, stopId |-> stopId, agencyId |-> ""]

AlertEntity(id, informedEntity, severityLevel, effect, given) ==
    [kind |-> "alert", id |-> id, given |-> given,
     alert |-> [headerText |-> <<"Detour", "Deviation">>,
                descriptionText |-> <<>>,
                severityLevel |-> severityLevel,
                effect |-> effect,
                activePeriod |-> <<[start |-> Now0, end |-> 0]>>,
                informedEntity |-> informedEntity]]

\* The three feeds behind the three URLs.
FeedsOf(tripUpdates, vehiclePositions, alerts) ==
    [status |-> tripUpdates.status, entity |-> tripUpdates.entity,
     vehicles |-> vehiclePositions, alerts |-> alerts]

FeedStatuses == {"ok", "http_error", "decode_error"}

\* What a URL answers in the given condition: its entities, or nothing usable.
Answer(status, entities) ==
    [status |-> status, entity |-> IF status = "ok" THEN entities ELSE <<>>]

ServiceTripUpdates ==
    << TripUpdate("T9", "9", <<StopTimeUpdate("S100", Now0 + 60, 0, 0)>>),
       TripUpdate("T1", "1", <<StopTimeUpdate("S100", Now0 + 200, 0, 1)>>) >>

ServiceVehicles ==
    << VehicleEntity("e1", "bus1", TRUE, TRUE, "T1", "1", 1, 1, {}),
       VehicleEntity("e2", "", TRUE, FALSE, "", "", 0, 0, {}) >>

ServiceAlerts ==
    << AlertEntity("a1", <<InformedEntity("1", "")>>, 2, 4, {}) >>

ServiceFeeds ==
    {FeedsOf(Answer(a, ServiceTripUpdates), Answer(b, ServiceVehicles),
             Answer(c, ServiceAlerts)) : a, b, c \in FeedStatuses}

ServiceBundle ==
    BundleWith(<< StopTimeLine("T1", "S100", <<10, 0, 0>>, "2"),
                  StopTimeLine("T1", "S999", <<9, 50, 0>>, "1"),
                  StopTimeLine("T9", "S100", <<10, 5, 0>>, "1") >>)

\* The realtime server's condition changes between two queries.
FeedChanges ==
    /\ phase = "ready"
    /\ feed' \in ServiceFeeds \ {feed}
    /\ call' = [op |-> "feedChanges"]
    /\ local' = <<>>
    /\ result' = <<>>
    /\ UNCHANGED <<phase, catalog, bundle, now>>

InitService ==
    /\ Constructed
    /\ bundle = ServiceBundle
    /\ feed \in ServiceFeeds
    /\ now = Now0

ServiceRoutes == {"", "1", "9"}

\* S100 is a loaded stop, S999 is called at by T1 but is not in stops.txt,
\* NOPE appears in no file.
DepartureStops == {"S100", "S999", "NOPE"}

NextService ==
    \/ Initialize
    \/ FeedChanges
    \/ \E r \in ServiceRoutes : GetNextArrivals("S100", r, DefaultMax)
    \/ \E s \in DepartureStops, r \in ServiceRoutes \cup {"77"} :
          GetScheduledDepartures(s, r, DefaultMax)
    \/ \E r \in {"1", "9"} : GetLiveArrivalsForRoute("S100", r)
    \/ \E r \in {"1", "9"} : GetNextArrivalForRoute("S100", r)
    \/ \E s \in DepartureStops, r \in {"1", "9"} :
          GetScheduledDeparturesForRoute(s, r)
    \/ \E s \in DepartureStops, r \in {"1", "9"} :
          GetNextScheduledDepartureForRoute(s, r)
    \/ GetNearbyStops(48428400, -123365600, 50000)
    \/ \E r \in ServiceRoutes : GetVehiclePositions(r)
    \/ \E r \in {"", "1"}, st \in {"", "S100"} : GetServiceAlerts(r, st)
    \/ \E k \in {"S100", "S999"} : GetStop(k)
    \/ GetAllRoutes
    \/ \E k \in {"1", "9"} : GetRoute(k)
    \/ \E k \in {"1", "9"} : GetRouteWithStops(k)
    \/ \E t \in {"T1", "T9", "TX"} : GetTripDetails(t)

SpecService == InitService /\ [][NextService]_vars

\* What a lookup of the key gives in a map, undefined when the key is absent.
Lookup(m, k) ==
    IF \E i \in 1..Len(m) : m[i].key = k
    THEN m[CHOOSE i \in 1..Len(m) : m[i].key = k].val
    ELSE UndefinedObject

\* The trip details that the bundle, as loaded at startup, holds for a trip.
DetailsAsLoaded(tripId) ==
    LET trip == Lookup(LoadTrips(<<>>, bundle.trips), tripId)
        route == IF trip = UndefinedObject THEN UndefinedObject
                 ELSE Lookup(LoadRoutes(<<>>, bundle.routes), trip.routeId)
        times == Lookup(LoadStopTimes(bundle), tripId)
    IN IF trip = UndefinedObject \/ route = UndefinedObject
       THEN UndefinedDetails
       ELSE [trip |-> trip, route |-> route,
             stopTimes |-> IF times = UndefinedObject THEN <<>> ELSE times]

(***************************************************************************)
(* C12.  After initialize() has completed, no query operation changes the  *)
(* route, trip, stop, stop-time or route-stops indexes; hence getStop,     *)
(* getRoute and getTripDetails called twice with the same key return equal *)
(* values, whatever queries run in between: each returns what the bundle   *)
(* loaded at startup holds for the key.                                    *)
(***************************************************************************)
C12_QueriesLeaveCatalog ==
    [][/\ phase = "ready" => (catalog' = catalog /\ bundle' = bundle)
       /\ call'.op = "getStop" =>
             result' = Lookup(LoadStops(<<>>, bundle.stops), call'.key)
       /\ call'.op = "getRoute" =>
             result' = Lookup(LoadRoutes(<<>>, bundle.routes), call'.key)
       /\ call'.op = "getTripDetails" =>
             result' = DetailsAsLoaded(call'.tripId)]_vars

\* getRoute finds no route "9" though the feed has an update of that route.
C12_Witness ==
    /\ phase = "ready"
    /\ call.op = "getRoute"
    /\ call.key = "9"
    /\ result = UndefinedObject
    /\ feed.status = "ok"
    /\ \E i \in 1..Len(feed.entity) : feed.entity[i].trip.routeId = "9"
    /\ routes = LoadRoutes(<<>>, bundle.routes)

\* Whether the feed that the last operation fetched was healthy.
FeedOfCallOk ==
    CASE call.op = "getNextArrivals" -> feed.status = "ok"
      [] call.op = "getVehiclePositions" -> feed.vehicles.status = "ok"
      [] call.op = "getServiceAlerts" -> feed.alerts.status = "ok"

\* The five indexes hold what the load put there.
CatalogAsLoaded ==
    /\ routes = LoadRoutes(<<>>, bundle.routes)
    /\ trips = LoadTrips(<<>>, bundle.trips)
    /\ stops = LoadStops(<<>>, bundle.stops)
    /\ stopTimes = LoadStopTimes(bundle)
    /\ routeStops = BuildRouteStopsMapping(<<>>, trips, stopTimes)

(***************************************************************************)
(* C13.  When the realtime feed fetch returns a non-2xx status or the      *)
(* payload cannot be decoded, getNextArrivals, getVehiclePositions and     *)
(* getServiceAlerts fail with an error that reaches the caller (the web    *)
(* handler answers with an error response, never a success with empty      *)
(* data); the static catalog is left unchanged, the process keeps running, *)
(* and a later query with a healthy feed succeeds.                         *)
(***************************************************************************)
C13_FeedFailurePropagates ==
    call.op \in {"getNextArrivals", "getVehiclePositions", "getServiceAlerts"} =>
        /\ ~FeedOfCallOk =>
              /\ call.threw
              /\ ~HandlerResponse.success
              /\ HandlerResponse.status = 500
        /\ FeedOfCallOk =>
              /\ ~call.threw
              /\ HandlerResponse.success
              /\ HandlerResponse.count = Len(result)
        /\ phase = "ready"
        /\ CatalogAsLoaded

\* The alerts feed does not decode while the trip-updates feed is healthy.
C13_Witness ==
    /\ call.op = "getServiceAlerts"
    /\ feed.alerts.status = "decode_error"
    /\ feed.status = "ok"
    /\ call.threw
    /\ HandlerResponse.status = 500
    /\ CatalogAsLoaded

(***************************************************************************)
(* Specification of the startup: the bundle URL answers with a zip that    *)
(* holds any of the four files, with a non-2xx status, or with bytes that  *)
(* are no zip; then the server serves, or the process exits.               *)
(***************************************************************************)
StartupStopTimes ==
    { << StopTimeLine("T1", "S100", <<10, 0, 0>>, "1") >>,
      << StopTimeLine("T1", "S200", <<10, 10, 0>>, "2"),
         StopTimeLine("T1", "S100", <<10, 0, 0>>, "1"),
         StopTimeLine("T3", "S100", <<10, 5, 0>>, "1") >> }

StartupBundles ==
    {[BundleWith(ls) EXCEPT !.files = fs] :
        ls \in StartupStopTimes, fs \in SUBSET AllFiles}
    \cup {[BundleWith(<<>>) EXCEPT !.status = st, !.files = {}] :
            st \in {"http_error", "bad_zip"}}

InitStartup ==
    /\ Constructed
    /\ bundle \in StartupBundles
    /\ feed = OkFeed(<<>>)
    /\ now = Now0

NextStartup ==
    \/ Initialize
    \/ Exit
    \/ \E s \in {"S100", "S200"}, r \in {"", "1"} :
          GetScheduledDepartures(s, r, DefaultMax)
    \/ \E k \in {"S100", "S200"} : GetStop(k)
    \/ \E k \in {"1", "9"} : GetRoute(k)
    \/ \E t \in {"T1", "T3", "T9", "TX"} : GetTripDetails(t)

SpecStartup == InitStartup /\ [][NextStartup]_vars

\* The bundle can be fetched, unzipped and holds the three mandatory tables.
BundleLoads == bundle.status = "ok" /\ MandatoryFiles \subseteq bundle.files

\* A request has been served.
Served == call.op \notin {"none", "initialize", "exit"}

(***************************************************************************)
(* C14.  The server starts listening and registers its query endpoints     *)
(* only after initialize() has completed successfully; if the bundle       *)
(* fetch, unzip or a mandatory table load fails, the process exits with a  *)
(* failure code and never serves a request against an unloaded or partly   *)
(* loaded catalog.                                                         *)
(***************************************************************************)
C14_ServesOnlyLoadedCatalog ==
    [][/\ phase' = "ready" => (BundleLoads /\ CatalogAsLoaded')
       /\ Served' => (phase' = "ready" /\ BundleLoads /\ CatalogAsLoaded')
       /\ (phase = "constructed" /\ ~BundleLoads) => phase' = "failed"
       /\ phase = "failed" => (phase' = "exited" /\ call'.code = 1 /\ ~Served')
       /\ phase = "exited" => FALSE]_vars

\* routes.txt and trips.txt were loaded, stops.txt is missing: the process
\* has exited with code 1.
C14_Witness ==
    /\ phase = "exited"
    /\ call.code = 1
    /\ "stops.txt" \notin bundle.files
    /\ routes # <<>>
    /\ trips # <<>>
    /\ stops = <<>>

\* The bundle was fetched and unzipped, and initialize() has run.
Unzipped == phase # "constructed" /\ bundle.status = "ok"

LoadFailed == phase \in {"failed", "exited"}

(***************************************************************************)
(* C15.  The static load fails if routes.txt, trips.txt or stops.txt is    *)
(* absent from the bundle, and succeeds when only stop_times.txt is        *)
(* absent; then the stop-time index and the route-stops mapping are empty, *)
(* getScheduledDepartures returns an empty list for every stop, and        *)
(* getTripDetails returns empty stopTimes, without error.                  *)
(***************************************************************************)
C15_OnlyStopTimesOptional ==
    /\ Unzipped =>
          (LoadFailed <=>
              ~({"routes.txt", "trips.txt", "stops.txt"} \subseteq bundle.files))
    /\ (Unzipped /\ bundle.files = {"routes.txt", "trips.txt", "stops.txt"}) =>
          /\ phase = "ready"
          /\ stopTimes = <<>>
          /\ routeStops = <<>>
          /\ call.op = "getScheduledDepartures" =>
                (result = <<>> /\ ~call.threw /\ HandlerResponse.success)
          /\ call.op = "getTripDetails" =>
                IF call.tripId \in {"T1", "T3"}
                THEN /\ result.trip.tripId = call.tripId
                     /\ result.stopTimes = <<>>
                ELSE result = UndefinedDetails

\* Only stop_times.txt is absent and the details of the loaded trip T1 have
\* been asked for.
C15_Witness ==
    /\ phase = "ready"
    /\ bundle.files = {"routes.txt", "trips.txt", "stops.txt"}
    /\ call.op = "getTripDetails"
    /\ call.tripId = "T1"
    /\ result.stopTimes = <<>>

\* The stop id is nowhere in the catalog: no stop of the stop index and no
\* stop time of the stop-time index carries it.
StopNotInCatalog(stopId) ==
    /\ ~MapHas(stops, stopId)
    /\ \A i \in 1..Len(stopTimes) :
          \A j \in 1..Len(stopTimes[i].val) :
             stopTimes[i].val[j].stopId # stopId

\* A route filter is given and the route index does not hold it.
RouteNotInCatalog(routeId) == routeId # "" /\ ~MapHas(routes, routeId)

DepartureOps ==
    {"getScheduledDepartures", "getScheduledDeparturesForRoute",
     "getNextScheduledDepartureForRoute"}

VehicleKinds ==
    { VehicleEntity("e1", "bus1", TRUE, TRUE, "T1", "1", 0, 0,
                    {"occupancyStatus", "congestionLevel"}),
      VehicleEntity("e2", "bus2", TRUE, TRUE, "T3", "2", 5, 2,
                    {"occupancyStatus", "congestionLevel"}),
      VehicleEntity("e3", "bus3", TRUE, FALSE, "", "", 0, 0, {}),
      VehicleEntity("e4", "bus4", FALSE, TRUE, "T2", "1", 1, 1,
                    {"occupancyStatus", "congestionLevel"}),
      TripUpdate("T1", "1", <<>>) }

VehicleFeeds ==
    {FeedsOf(Answer("ok", <<>>), Answer("ok", vs), Answer("ok", <<>>)) :
        vs \in SeqsUpTo(VehicleKinds, MaxEntities)}

InitVehicles ==
    /\ Constructed
    /\ bundle = BundleWith(<<>>)
    /\ feed \in VehicleFeeds
    /\ now = Now0

NextVehicles ==
    \/ Initialize
    \/ \E r \in {"", "1", "2", "77"} : GetVehiclePositions(r)

SpecVehicles == InitVehicles /\ [][NextVehicles]_vars

\* The entity carries a vehicle with a position.
Positioned(entity) == entity.kind = "vehicle" /\ entity.vehicle.hasPosition

\* The entity carries a vehicle on a trip of the route.
OnRoute(entity, routeId) ==
    /\ entity.kind = "vehicle"
    /\ entity.vehicle.hasTrip
    /\ entity.vehicle.trip.routeId = routeId

\* The entities of the vehicle feed that the claim says are returned.
VehiclesExpected ==
    LET Kept(entity) ==
            /\ Positioned(entity)
            /\ call.routeFilter # "" => OnRoute(entity, call.routeFilter)
    IN SelectSeq(feed.vehicles.entity, Kept)

(***************************************************************************)
(* C17.  getVehiclePositions(routeFilter) returns only feed entities that  *)
(* carry a vehicle with a position; with a route filter every returned     *)
(* vehicle has routeId equal to the filter (vehicles with another route or *)
(* with no trip are left out), and with no filter every vehicle with a     *)
(* position is returned.                                                   *)
(***************************************************************************)
C17_VehiclesFiltered ==
    call.op = "getVehiclePositions" =>
        /\ ~call.threw
        /\ Len(result) = Len(VehiclesExpected)
        /\ \A i \in 1..Len(result) :
              /\ result[i].vehicleId = VehiclesExpected[i].vehicle.descriptorId
              /\ call.routeFilter # "" => result[i].routeId = call.routeFilter

\* Route 1 asked for while the feed holds a vehicle on route 1, one on route
\* 2 and one with no trip: only the first is returned.
C17_Witness ==
    /\ call.op = "getVehiclePositions"
    /\ call.routeFilter = "1"
    /\ Len(feed.vehicles.entity) = 3
    /\ \A i \in 1..3 : feed.vehicles.entity[i].kind = "vehicle"
    /\ {feed.vehicles.entity[i].id : i \in 1..3} = {"e1", "e2", "e3"}
    /\ Len(result) = 1
    /\ result[1].vehicleId = "bus1"

(***************************************************************************)
(* Specification of the service alerts query: the alerts feed holds a few  *)
(* entities of the kinds below, in any order.                              *)
(***************************************************************************)
\* An alert about route 1; one about stop S100; one about route 2 at stop
\* S200 and route 1 at stop S300; one that informs no entity; an entity that
\* carries no alert.
AlertKinds ==
    { AlertEntity("a1", <<InformedEntity("1", "")>>, 2, 4,
                  {"severityLevel", "effect"}),
      AlertEntity("a2", <<InformedEntity("", "S100")>>, 1, 1,
                  {"severityLevel", "effect"}),
      AlertEntity("a3", <<InformedEntity("2", "S200"),
                          InformedEntity("1", "S300")>>, 4, 9,
                  {"severityLevel", "effect"}),
      AlertEntity("a4", <<>>, 0, 0, {}),
      TripUpdate("T1", "1", <<>>) }

AlertFeeds ==
    {FeedsOf(Answer("ok", <<>>), Answer("ok", <<>>), Answer("ok", as)) :
        as \in SeqsUpTo(AlertKinds, MaxEntities)}

InitAlerts ==
    /\ Constructed
    /\ bundle = BundleWith(<<>>)
    /\ feed \in AlertFeeds
    /\ now = Now0

NextAlerts ==
    \/ Initialize
    \/ \E r \in {"", "1", "2"}, st \in {"", "S100", "S200"} :
          GetServiceAlerts(r, st)

SpecAlerts == InitAlerts /\ [][NextAlerts]_vars

\* Some informed entity of the alert names the route asked for or the stop
\* asked for.
Informs(entity, routeId, stopId) ==
    \E i \in 1..Len(entity.alert.informedEntity) :
        LET informed == entity.alert.informedEntity[i]
        IN \/ routeId # "" /\ informed.routeId = routeId
           \/ stopId # "" /\ informed.stopId = stopId

\* The entities of the alerts feed that the claim says are returned.
AlertsExpected ==
    LET Kept(entity) ==
            /\ entity.kind = "alert"
            /\ \/ call.routeFilter = "" /\ call.stopFilter = ""
               \/ Informs(entity, call.routeFilter, call.stopFilter)
    IN SelectSeq(feed.alerts.entity, Kept)

(***************************************************************************)
(* C18.  getServiceAlerts(routeFilter, stopFilter): with neither filter    *)
(* given every alert of the feed is returned; with at least one filter     *)
(* given an alert is returned if and only if some informed entity of it    *)
(* has routeId equal to the route filter or stopId equal to the stop       *)
(* filter (either match suffices; an alert with no informed entity is then *)
(* left out).                                                              *)
(***************************************************************************)
C18_AlertsFiltered ==
    call.op = "getServiceAlerts" =>
        /\ ~call.threw
        /\ Len(result) = Len(AlertsExpected)
        /\ \A i \in 1..Len(result) : result[i].alertId = AlertsExpected[i].id

\* Route 1 and stop S200 asked for together: the alert about route 2 at S200
\* and route 1 at S300 is returned, the alert about stop S100 and the alert
\* that informs no entity are not.
C18_Witness ==
    /\ call.op = "getServiceAlerts"
    /\ call.routeFilter = "1"
    /\ call.stopFilter = "S200"
    /\ Len(feed.alerts.entity) = 3
    /\ \A i \in 1..3 : feed.alerts.entity[i].kind = "alert"
    /\ {feed.alerts.entity[i].id : i \in 1..3} = {"a2", "a3", "a4"}
    /\ Len(result) = 1
    /\ result[1].alertId = "a3"

\* The feed entity that the i-th returned vehicle was built from.
EntityOfVehicle(i) == VehiclesExpected[i]

(***************************************************************************)
(* C19.  Every enum field of a decoded realtime entity that is present in  *)
(* the feed is output as its symbolic name, for every value of the enum    *)
(* including the value numbered 0 (EMPTY, UNKNOWN_CONGESTION_LEVEL), never *)
(* as a raw integer and never as absent.  Stated here for the two enums of *)
(* a vehicle position.                                                     *)
(***************************************************************************)
C19_Original_EnumsNamed ==
    call.op = "getVehiclePositions" =>
        \A i \in 1..Len(result) :
            LET entity == EntityOfVehicle(i)
            IN /\ "occupancyStatus" \in entity.given =>
                    result[i].occupancyStatus =
                        OccupancyStatusName(entity.vehicle.occupancyStatus)
               /\ "congestionLevel" \in entity.given =>
                    result[i].congestionLevel =
                        CongestionLevelName(entity.vehicle.congestionLevel)

\* What holds in place of C19: an enum is output as its symbolic name when
\* its value is not 0, and as undefined when its value is 0, on the wire or
\* not.
C19_NonZeroEnumsNamed ==
    call.op = "getVehiclePositions" =>
        \A i \in 1..Len(result) :
            LET vehicle == EntityOfVehicle(i).vehicle
            IN /\ result[i].occupancyStatus =
                    IF vehicle.occupancyStatus = 0 THEN Undefined
                    ELSE OccupancyStatusName(vehicle.occupancyStatus)
               /\ result[i].congestionLevel =
                    IF vehicle.congestionLevel = 0 THEN Undefined
                    ELSE CongestionLevelName(vehicle.congestionLevel)

(***************************************************************************)
(* Specification of the route wrappers: route 1 has none, one, six or      *)
(* MaxTimes live arrivals and none, one, six or MaxTimes scheduled         *)
(* departures at S100, so that the limits 1, 5 and 10 all give different   *)
(* lists.                                                                  *)
(***************************************************************************)
TimesCounts == {0, 1, 6, MaxTimes}

\* n arrivals of route 1 at S100, the latest first, one minute apart.
WrapperUpdates(n) ==
    [k \in 1..n |-> StopTimeUpdate("S100", Now0 + 60 * (n + 1 - k), 0, 1)]

WrapperFeeds ==
    {OkFeed(<<TripUpdate("T1", "1", WrapperUpdates(n))>>) : n \in TimesCounts}
    \cup BadFeeds

\* n trips of route 1, each calling once at S100, the latest first.
WrapperTrips(n) == [k \in 1..n |-> <<"1", "wk", "W" \o ToString(k), "Downtown">>]

WrapperLines(n) ==
    [k \in 1..n |->
        StopTimeLine("W" \o ToString(k), "S100", <<10, n + 1 - k, 0>>, "1")]

WrapperBundles ==
    {[BundleWith(WrapperLines(n)) EXCEPT !.trips = WrapperTrips(n)] :
        n \in TimesCounts}

InitWrappers ==
    /\ Constructed
    /\ bundle \in WrapperBundles
    /\ feed \in WrapperFeeds
    /\ now = Now0

WrapperRoutes == {"1", "2", "77"}

NextWrappers ==
    \/ Initialize
    \/ \E r \in WrapperRoutes, m \in {1, ForRouteMax} :
          GetNextArrivals("S100", r, m)
    \/ \E r \in WrapperRoutes, m \in {1, ForRouteMax} :
          GetScheduledDepartures("S100", r, m)
    \/ \E r \in WrapperRoutes : GetLiveArrivalsForRoute("S100", r)
    \/ \E r \in WrapperRoutes : GetNextArrivalForRoute("S100", r)
    \/ \E r \in WrapperRoutes : GetScheduledDeparturesForRoute("S100", r)
    \/ \E r \in WrapperRoutes : GetNextScheduledDepartureForRoute("S100", r)

SpecWrappers == InitWrappers /\ [][NextWrappers]_vars

\* The "next" result for a list that the call with maxPerRoute = 1 returned
\* and the list that the "for route" call returned: none exactly when the
\* first is empty, otherwise its sole element with one time entry, the first
\* of the "for route" list.
IsNextOf(one, ten, times) ==
    IF one = <<>> THEN result = Null
    ELSE /\ Len(one) = 1
         /\ result = one[1]
         /\ Len(result[times]) = 1
         /\ ten # <<>>
         /\ result[times][1] = ten[1][times][1]
         /\ \A k \in 1..Len(ten[1][times]) :
               result[times][1].time <= ten[1][times][k].time

(***************************************************************************)
(* C20.  For the same catalog, feed snapshot and clock value:              *)
(* getLiveArrivalsForRoute(s, r) equals getNextArrivals(s, r, 10) and      *)
(* getScheduledDeparturesForRoute(s, r) equals                             *)
(* getScheduledDepartures(s, r, 10); getNextArrivalForRoute(s, r) and      *)
(* getNextScheduledDepartureForRoute(s, r) return none exactly when the    *)
(* corresponding call with maxPerRoute = 1 is empty, and otherwise its     *)
(* sole element, which holds exactly one time entry, the soonest one that  *)
(* the "for route" call returns.  A wrapper fails exactly when the call it *)
(* stands for fails.                                                       *)
(***************************************************************************)
C20_WrappersAgree ==
    /\ (call.op = "getNextArrivals" /\ ~call.threw) =>
          result = NextArrivalsOf(call.stopId, call.routeFilter, call.max)
    /\ call.op = "getScheduledDepartures" =>
          result = ScheduledDeparturesOf(call.stopId, call.routeFilter, call.max)
    /\ call.op \in {"getLiveArrivalsForRoute", "getNextArrivalForRoute"} =>
          (call.threw <=> feed.status # "ok")
    /\ call.op \in {"getScheduledDeparturesForRoute",
                    "getNextScheduledDepartureForRoute"} => ~call.threw
    /\ (call.op = "getLiveArrivalsForRoute" /\ ~call.threw) =>
          result = NextArrivalsOf(call.stopId, call.routeFilter, 10)
    /\ call.op = "getScheduledDeparturesForRoute" =>
          result = ScheduledDeparturesOf(call.stopId, call.routeFilter, 10)
    /\ (call.op = "getNextArrivalForRoute" /\ ~call.threw) =>
          IsNextOf(NextArrivalsOf(call.stopId, call.routeFilter, 1),
                   NextArrivalsOf(call.stopId, call.routeFilter, 10),
                   "arrivalTimes")
    /\ call.op = "getNextScheduledDepartureForRoute" =>
          IsNextOf(ScheduledDeparturesOf(call.stopId, call.routeFilter, 1),
                   ScheduledDeparturesOf(call.stopId, call.routeFilter, 10),
                   "departureTimes")

\* Route 1 has MaxTimes departures at S100 and the "for route" wrapper has
\* returned the ten soonest of them.
C20_Witness ==
    /\ call.op = "getScheduledDeparturesForRoute"
    /\ call.routeFilter = "1"
    /\ Len(bundle.stopTimes) = MaxTimes
    /\ Len(result) = 1
    /\ Len(result[1].departureTimes) = 10
    /\ result[1].departureTimes[1].time = LocalMidnight(now) + 10 * 3600 + 60

(***************************************************************************)
(* Realtime queries in flight at once.  A getNextArrivals call suspends at *)
(* `await fetch(...)` and at `await response.arrayBuffer()`; between the   *)
(* two, and around them, other calls run, the realtime server publishes a  *)
(* new feed and the clock advances.  `local` maps the identity of each     *)
(* call in flight to its own frame: arguments, position, and the response  *)
(* it holds.                                                               *)
(***************************************************************************)
QueryIds == 1..MaxInFlight

InFlight(q) == q \in DOMAIN local

\* The frames without the one of a call that has returned or thrown.
Without(q) ==
    IF DOMAIN local = {q} THEN <<>>
    ELSE [x \in DOMAIN local \ {q} |-> local[x]]

\* The frames with the frame of call q set.
WithFrame(q, frame) ==
    [x \in DOMAIN local \cup {q} |-> IF x = q THEN frame ELSE local[x]]

\* The call enters getNextArrivals and suspends at `await fetch`.
StartArrivals(q, stopId, routeFilter, maxArrivals) ==
    /\ phase = "ready"
    /\ ~InFlight(q)
    /\ local' = WithFrame(q, [pc |-> "fetch", stopId |-> stopId,
                              routeFilter |-> routeFilter, max |-> maxArrivals,
                              response |-> [status |-> "none", entity |-> <<>>]])
    /\ call' = [op |-> "start", id |-> q]
    /\ UNCHANGED <<phase, catalog, world, result>>

\* The response taken from a cache that an earlier call filled.
FetchReturns_Cached(q) ==
    /\ InFlight(q)
    /\ local[q].pc = "fetch"
    /\ LET filled == {x \in DOMAIN local : local[x].pc = "arrayBuffer"}
           response == IF filled # {}
                       THEN local[CHOOSE x \in filled : TRUE].response
                       ELSE [status |-> feed.status, entity |-> feed.entity]
       IN IF response.status = "http_error"
          THEN /\ local' = Without(q)
               /\ call' = [op |-> "getNextArrivals", id |-> q,
                           stopId |-> local[q].stopId,
                           routeFilter |-> local[q].routeFilter,
                           max |-> local[q].max, currentTime |-> now,
                           response |-> response, threw |-> TRUE]
               /\ result' = <<>>
          ELSE /\ local' = [local EXCEPT ![q].pc = "arrayBuffer",
                                         ![q].response = response]
               /\ call' = [op |-> "fetched", id |-> q]
               /\ UNCHANGED result
    /\ UNCHANGED <<phase, catalog, world>>

\* `await fetch` resolves with what the realtime server holds now; a non-2xx
\* status throws at once, otherwise the call suspends at `await arrayBuffer`.
FetchReturns(q) ==
    /\ InFlight(q)
    /\ local[q].pc = "fetch"
    /\ LET response == [status |-> feed.status, entity |-> feed.entity]
       IN IF response.status = "http_error"
          THEN /\ local' = Without(q)
               /\ call' = [op |-> "getNextArrivals", id |-> q,
                           stopId |-> local[q].stopId,
                           routeFilter |-> local[q].routeFilter,
                           max |-> local[q].max, currentTime |-> now,
                           response |-> response, threw |-> TRUE]
               /\ result' = <<>>
          ELSE /\ local' = [local EXCEPT ![q].pc = "arrayBuffer",
                                         ![q].response = response]
               /\ call' = [op |-> "fetched", id |-> q]
               /\ UNCHANGED result
    /\ UNCHANGED <<phase, catalog, world>>

\* The rest of getNextArrivals, run without suspension once the bytes are
\* there: decode, Date.now(), the scan of the entities, the results.
FinishArrivals(q) ==
    /\ InFlight(q)
    /\ local[q].pc = "arrayBuffer"
    /\ LET frame == local[q]
           failed == frame.response.status # "ok"
       IN /\ call' = [op |-> "getNextArrivals", id |-> q,
                      stopId |-> frame.stopId,
                      routeFilter |-> frame.routeFilter, max |-> frame.max,
                      currentTime |-> now, response |-> frame.response,
                      threw |-> failed]
          /\ result' =
                IF failed THEN <<>>
                ELSE FormatArrivals(
                         CollectArrivals(<<>>, frame.response.entity,
                                         frame.stopId, frame.routeFilter, now),
                         routes, trips, frame.stopId, now, frame.max)
    /\ local' = Without(q)
    /\ UNCHANGED <<phase, catalog, world>>

\* The realtime server publishes another feed, or starts or stops failing.
FeedPublished(feeds) ==
    /\ phase = "ready"
    /\ feed' \in feeds \ {feed}
    /\ call' = [op |-> "feedPublished"]
    /\ UNCHANGED <<phase, catalog, bundle, now, local, result>>

\* A minute passes.
Tick ==
    /\ phase = "ready"
    /\ now < Now0 + 60 * MaxTicks
    /\ now' = now + 60
    /\ call' = [op |-> "tick"]
    /\ UNCHANGED <<phase, catalog, bundle, feed, local, result>>

\* Two feeds that differ in what they predict for route 1 at S100, and the
\* two ways a fetch fails.
ConcurrentFeeds ==
    { OkFeed(<<TripUpdate("T1", "1", <<StopTimeUpdate("S100", Now0 + 180, 0, 1)>>)>>),
      OkFeed(<<TripUpdate("T1", "1", <<StopTimeUpdate("S100", Now0 + 300, 60, 1)>>),
               TripUpdate("T3", "2", <<StopTimeUpdate("S100", Now0 + 240, 0, 1)>>)>>) }
    \cup BadFeeds

InitConcurrent ==
    /\ Constructed
    /\ bundle = BundleWith(<<>>)
    /\ feed \in ConcurrentFeeds
    /\ now = Now0

NextConcurrent ==
    \/ Initialize
    \/ FeedPublished(ConcurrentFeeds)
    \/ Tick
    \/ \E q \in QueryIds, r \in {"", "1"} : StartArrivals(q, "S100", r, DefaultMax)
    \/ \E q \in QueryIds : FetchReturns(q)
    \/ \E q \in QueryIds : FinishArrivals(q)

SpecConcurrent == InitConcurrent /\ [][NextConcurrent]_vars

\* What getNextArrivals computes from a decoded feed, a clock value and the
\* catalog.
ArrivalsFrom(entities, clock, stopId, routeFilter, maxArrivals) ==
    FormatArrivals(CollectArrivals(<<>>, entities, stopId, routeFilter, clock),
                   routes, trips, stopId, clock, maxArrivals)

(***************************************************************************)
(* C21.  Any number of realtime queries may be in flight at once: each     *)
(* performs its own fetch of the upstream feed (the response a call holds  *)
(* is what the server held when its own fetch resolved, never what another *)
(* call fetched), and the result of each query is a function only of the   *)
(* feed it fetched itself, the clock value it read itself and the static   *)
(* catalog, for every interleaving of the queries at their suspension      *)
(* points; the other calls' frames are not touched.                        *)
(***************************************************************************)
C21_QueriesIndependent ==
    [][/\ \A q \in QueryIds :
             /\ (InFlight(q) /\ q \in DOMAIN local' /\ local[q].pc = "fetch"
                 /\ local'[q].pc = "arrayBuffer") =>
                    local'[q].response = [status |-> feed.status, entity |-> feed.entity]
             /\ (InFlight(q) /\ q \in DOMAIN local'
                 /\ call'.op \in {"start", "fetched", "getNextArrivals"}
                 /\ call'.id # q) => local'[q] = local[q]
       /\ call'.op = "getNextArrivals" =>
             LET frame == local[call'.id]
             IN /\ call'.id \notin DOMAIN local'
                /\ call'.currentTime = now
                /\ IF frame.pc = "fetch"
                   THEN /\ feed.status = "http_error"
                        /\ call'.threw
                   ELSE /\ call'.response = frame.response
                        /\ call'.threw <=> frame.response.status # "ok"
                        /\ ~call'.threw =>
                              result' = ArrivalsFrom(frame.response.entity, now,
                                                     frame.stopId, frame.routeFilter,
                                                     frame.max)
       /\ catalog' = catalog \/ phase = "constructed"]_vars

\* Two calls in flight hold different feeds, and the one that fetched first
\* has returned the arrivals of its own feed although the server now holds
\* another.
C21_Witness ==
    /\ call.op = "getNextArrivals"
    /\ ~call.threw
    /\ call.response # [status |-> feed.status, entity |-> feed.entity]
    /\ \E q \in DOMAIN local :
          /\ local[q].pc = "arrayBuffer"
          /\ local[q].response.status = "ok"
          /\ local[q].response # call.response
    /\ result # <<>>
    /\ result = ArrivalsFrom(call.response.entity, call.currentTime,
                             call.stopId, call.routeFilter, call.max)

(***************************************************************************)
(* C22.  An arrival that is 5 minutes behind schedule (delaySeconds = 300) *)
(* and is more than 2 minutes away is reported with status "Delayed".      *)
(***************************************************************************)
C22_Original_FiveMinutesDelayed ==
    (/\ call.op = "getArrivalStatus"
     /\ call.delaySeconds = 300
     /\ call.minutesUntil > 2) => result = "Delayed"

\* What holds in place of C22: more than 2 minutes away, a delay of 300
\* seconds is reported as the minutes, and only a longer delay as "Delayed".
C22_DelayedAboveFiveMinutes ==
    (call.op = "getArrivalStatus" /\ call.minutesUntil > 2) =>
        /\ call.delaySeconds = 300 => result = ToString(call.minutesUntil) \o " min"
        /\ call.delaySeconds > 300 => result = "Delayed"

(***************************************************************************)
(* The arrivals and departures endpoints of index.ts.  The query parameter *)
(* max is a text or missing; env.maxArrivalsPerRoute is the value the      *)
(* process was configured with, recorded in `call` beside the request.     *)
(***************************************************************************)
\* parseInt(text, 10) for the texts the requests below carry.
ParseIntOfParam(text) ==
    CASE text = "-2" -> [isNaN |-> FALSE, n |-> -2]
      [] text = "3abc" -> [isNaN |-> FALSE, n |-> 3]
      [] text = "2.7" -> [isNaN |-> FALSE, n |-> 2]
      [] \E n \in 0..101 : ToString(n) = text ->
            [isNaN |-> FALSE, n |-> CHOOSE n \in 0..101 : ToString(n) = text]
      [] OTHER -> [isNaN |-> TRUE, n |-> 0]

validatePositiveInteger(value, defaultValue) ==
    IF value = Undefined \/ value = "" THEN defaultValue
    ELSE LET parsed == ParseIntOfParam(value)
         IN IF parsed.isNaN \/ parsed.n <= 0 THEN defaultValue
            ELSE parsed.n

\* GET /api/arrivals/:stopId?routeId=&max=
ArrivalsEndpoint(stopId, routeId, max, maxArrivalsPerRoute) ==
    /\ phase = "ready"
    /\ LET maxArrivals == Min(validatePositiveInteger(max, 5), maxArrivalsPerRoute)
       IN /\ call' = [op |-> "GET /api/arrivals/:stopId", stopId |-> stopId,
                      routeFilter |-> routeId, max |-> maxArrivals,
                      maxArrivalsPerRoute |-> maxArrivalsPerRoute,
                      currentTime |-> now, threw |-> feed.status # "ok"]
          /\ result' = IF feed.status # "ok" THEN <<>>
                       ELSE NextArrivalsOf(stopId, routeId, maxArrivals)
    /\ local' = <<>>
    /\ UNCHANGED <<phase, catalog, world>>

\* GET /api/arrivals/:stopId/route/:routeId
ArrivalsRouteEndpoint(stopId, routeId, maxArrivalsPerRoute) ==
    /\ phase = "ready"
    /\ call' = [op |-> "GET /api/arrivals/:stopId/route/:routeId",
                stopId |-> stopId, routeFilter |-> routeId,
                maxArrivalsPerRoute |-> maxArrivalsPerRoute,
                currentTime |-> now, threw |-> feed.status # "ok"]
    /\ result' = IF feed.status # "ok" THEN <<>>
                 ELSE NextArrivalsOf(stopId, routeId, ForRouteLimit)
    /\ local' = <<>>
    /\ UNCHANGED <<phase, catalog, world>>

\* GET /api/departures/:stopId?routeId=&max=
DeparturesEndpoint(stopId, routeId, max, maxArrivalsPerRoute) ==
    /\ phase = "ready"
    /\ LET maxDepartures == Min(validatePositiveInteger(max, 5), maxArrivalsPerRoute)
       IN /\ call' = [op |-> "GET /api/departures/:stopId", stopId |-> stopId,
                      routeFilter |-> routeId, max |-> maxDepartures,
                      maxArrivalsPerRoute |-> maxArrivalsPerRoute,
                      currentTime |-> now, threw |-> FALSE]
          /\ result' = ScheduledDeparturesOf(stopId, routeId, maxDepartures)
    /\ local' = <<>>
    /\ UNCHANGED <<phase, catalog, world>>

\* GET /api/departures/:stopId/route/:routeId
DeparturesRouteEndpoint(stopId, routeId, maxArrivalsPerRoute) ==
    /\ phase = "ready"
    /\ call' = [op |-> "GET /api/departures/:stopId/route/:routeId",
                stopId |-> stopId, routeFilter |-> routeId,
                maxArrivalsPerRoute |-> maxArrivalsPerRoute,
                currentTime |-> now, threw |-> FALSE]
    /\ result' = ScheduledDeparturesOf(stopId, routeId, ForRouteLimit)
    /\ local' = <<>>
    /\ UNCHANGED <<phase, catalog, world>>

(***************************************************************************)
(* Specification of the four endpoints, over the worlds of the wrappers    *)
(* (route 1 with up to MaxTimes arrivals and departures at S100).          *)
(***************************************************************************)
MaxTexts == {Undefined, "", "abc", "0", "-2", "1", "3", "3abc", "7", "12"}

ConfiguredMaxes == {1, 5, 10, 12}

InitEndpoints ==
    /\ Constructed
    /\ bundle \in WrapperBundles
    /\ feed \in WrapperFeeds
    /\ now = Now0

NextEndpoints4 ==
    \/ Initialize
    \/ \E r \in {"", "1"}, m \in MaxTexts, e \in ConfiguredMaxes :
          ArrivalsEndpoint("S100", r, m, e)
    \/ \E e \in ConfiguredMaxes : ArrivalsRouteEndpoint("S100", "1", e)
    \/ \E r \in {"", "1"}, m \in MaxTexts, e \in ConfiguredMaxes :
          DeparturesEndpoint("S100", r, m, e)
    \/ \E e \in ConfiguredMaxes : DeparturesRouteEndpoint("S100", "1", e)

SpecEndpoints == InitEndpoints /\ [][NextEndpoints4]_vars

ArrivalsEndpoints ==
    {"GET /api/arrivals/:stopId", "GET /api/arrivals/:stopId/route/:routeId"}

DeparturesEndpoints ==
    {"GET /api/departures/:stopId", "GET /api/departures/:stopId/route/:routeId"}

\* The longest list of time entries that the answer holds for one route.
EntriesWithin(n) ==
    /\ call.op \in ArrivalsEndpoints =>
          \A i \in 1..Len(result) : Len(result[i].arrivalTimes) <= n
    /\ call.op \in DeparturesEndpoints =>
          \A i \in 1..Len(result) : Len(result[i].departureTimes) <= n

(***************************************************************************)
(* C23.  No arrivals or departures endpoint returns more than              *)
(* MAX_ARRIVALS_PER_ROUTE time entries for one route, for every configured *)
(* value of MAX_ARRIVALS_PER_ROUTE >= 1 and every value of the max query   *)
(* parameter.                                                              *)
(***************************************************************************)
C23_Original_ConfiguredCap ==
    call.op \in ArrivalsEndpoints \cup DeparturesEndpoints =>
        EntriesWithin(call.maxArrivalsPerRoute)

\* What holds in place of C23: the two endpoints that take max keep to the
\* configured cap (and to max, 5 when max is missing, not a number or not
\* positive); the two route endpoints keep to 10 whatever is configured.
C23_CapOfEachEndpoint ==
    /\ call.op \in {"GET /api/arrivals/:stopId", "GET /api/departures/:stopId"} =>
          /\ call.max <= call.maxArrivalsPerRoute
          /\ EntriesWithin(call.max)
    /\ call.op \in {"GET /api/arrivals/:stopId/route/:routeId",
                    "GET /api/departures/:stopId/route/:routeId"} =>
          EntriesWithin(10)

(***************************************************************************)
(* GET /api/routes: a page of the route list.                              *)
(***************************************************************************)
\* array.slice(start, end) for 0 <= start <= end
Slice(list, start, end) == SubSeq(list, start + 1, Min(end, Len(list)))

\* hasNext true also when the page ends with the list.
createPaginatedResponse_Inclusive(data, page, limit, total) ==
    [success |-> TRUE, data |-> data,
     pagination |-> [page |-> page, limit |-> limit, total |-> total,
                     hasNext |-> page * limit <= total,
                     hasPrev |-> page > 1]]

createPaginatedResponse(data, page, limit, total) ==
    [success |-> TRUE, data |-> data,
     pagination |-> [page |-> page, limit |-> limit, total |-> total,
                     hasNext |-> page * limit < total,
                     hasPrev |-> page > 1]]

\* The handler's answer for the texts of the page and limit parameters.
RoutesResponse(page, limit) ==
    LET pageNum == validatePositiveInteger(page, 1)
        limitNum == Min(validatePositiveInteger(limit, 50), 100)
        allRoutes == [i \in 1..Len(routes) |-> routes[i].val]
        total == Len(allRoutes)
        startIndex == (pageNum - 1) * limitNum
        endIndex == startIndex + limitNum
    IN createPaginatedResponse(Slice(allRoutes, startIndex, endIndex),
                               pageNum, limitNum, total)

RoutesEndpoint(page, limit) ==
    /\ phase = "ready"
    /\ call' = [op |-> "GET /api/routes", page |-> page, limit |-> limit,
                threw |-> FALSE]
    /\ local' = <<>>
    /\ result' = RoutesResponse(page, limit)
    /\ UNCHANGED <<phase, catalog, world>>

(***************************************************************************)
(* Specification of the routes endpoint: routes.txt lists up to MaxRoutes  *)
(* routes.                                                                 *)
(***************************************************************************)
RouteLines(n) == [k \in 1..n |-> <<"R" \o ToString(k), ToString(k), "Line", "3", "", "">>]

RoutesBundles ==
    {[BundleWith(<<>>) EXCEPT !.routes = RouteLines(n)] : n \in 0..MaxRoutes}

PageTexts == {Undefined, "", "abc", "0", "-2", "1", "2", "3", "4", "2.7"}

LimitTexts == {Undefined, "", "abc", "0", "1", "2", "3", "100", "101"}

InitRoutes ==
    /\ Constructed
    /\ bundle \in RoutesBundles
    /\ feed = OkFeed(<<>>)
    /\ now = Now0

NextRoutes ==
    \/ Initialize
    \/ \E p \in PageTexts, l \in LimitTexts : RoutesEndpoint(p, l)

SpecRoutes == InitRoutes /\ [][NextRoutes]_vars

\* The page number and the limit that the claim gives for the two texts.
PageOfText(text) ==
    CASE text \in {"1", "2", "3", "4"} -> CHOOSE n \in 1..4 : ToString(n) = text
      [] text = "2.7" -> 2
      [] OTHER -> 1

LimitOfText(text) ==
    CASE text \in {"1", "2", "3"} -> CHOOSE n \in 1..3 : ToString(n) = text
      [] text \in {"100", "101"} -> 100
      [] OTHER -> 50

\* The route list, as the route index holds it.
RouteList == [i \in 1..Len(routes) |-> routes[i].val]

\* The routes returned by asking for pages p, p + 1, ... for as long as
\* hasNext is true.
RECURSIVE PagesFrom(_, _)
PagesFrom(p, limit) ==
    LET response == RoutesResponse(ToString(p), limit)
    IN IF response.pagination.hasNext
       THEN response.data \o PagesFrom(p + 1, limit)
       ELSE response.data

(***************************************************************************)
(* C24.  GET /api/routes with page p and limit L (p defaults to 1 and L to *)
(* 50 when missing, non-numeric or not positive; L is capped at 100)       *)
(* returns the routes at positions (p-1)*L to p*L-1 of the route list with *)
(* total = the number of routes, hasPrev = (p > 1) and hasNext =           *)
(* (p*L < total); requesting pages 1, 2, ... for as long as hasNext is     *)
(* true returns every route exactly once, and hasNext is true exactly when *)
(* the next page is non-empty.                                             *)
(***************************************************************************)
C24_RoutesPaged ==
    call.op = "GET /api/routes" =>
        LET p == PageOfText(call.page)
            L == LimitOfText(call.limit)
            total == Len(RouteList)
            positions == {i \in 0..(total - 1) : (p - 1) * L <= i /\ i <= p * L - 1}
        IN /\ ~call.threw
           /\ result.pagination =
                 [page |-> p, limit |-> L, total |-> total,
                  hasNext |-> p * L < total, hasPrev |-> p > 1]
           /\ Len(result.data) = Cardinality(positions)
           /\ \A k \in 1..Len(result.data) :
                 result.data[k] = RouteList[(p - 1) * L + k]
           /\ PagesFrom(1, call.limit) = RouteList
           /\ \A i, j \in 1..total :
                 RouteList[i].routeId = RouteList[j].routeId => i = j
           /\ result.pagination.hasNext <=>
                 RoutesResponse(ToString(p + 1), call.limit).data # <<>>

\* Page 2 of five routes, two to a page: the third and fourth route, with a
\* page before it and a page after it.
C24_Witness ==
    /\ call.op = "GET /api/routes"
    /\ call.page = "2"
    /\ call.limit = "2"
    /\ Len(routes) = 5
    /\ Len(result.data) = 2
    /\ result.data[1].routeId = "R3"
    /\ result.pagination.hasNext
    /\ result.pagination.hasPrev

(***************************************************************************)
(* The API key middleware, mounted on /api before every handler.  The      *)
(* header is a text or missing; env.apiKeyRequired and env.adminApiKey are *)
(* the values the process was configured with, recorded in `call` beside   *)
(* the request.                                                            *)
(***************************************************************************)
\* Every key let through while no admin key is configured.
validateApiKey_OpenWhenUnset(apiKey, apiKeyRequired, adminApiKey) ==
    IF ~apiKeyRequired THEN [next |-> TRUE, status |-> 0]
    ELSE IF apiKey = Undefined \/ apiKey = "" THEN [next |-> FALSE, status |-> 401]
    ELSE IF adminApiKey = Undefined \/ adminApiKey = "" \/ apiKey = adminApiKey
         THEN [next |-> TRUE, status |-> 0]
    ELSE [next |-> FALSE, status |-> 403]

\* validateApiKey: next() or the status it answers with.
validateApiKey(apiKey, apiKeyRequired, adminApiKey) ==
    IF ~apiKeyRequired THEN [next |-> TRUE, status |-> 0]
    ELSE IF apiKey = Undefined \/ apiKey = "" THEN [next |-> FALSE, status |-> 401]
    ELSE IF adminApiKey # Undefined /\ adminApiKey # "" /\ apiKey = adminApiKey
         THEN [next |-> TRUE, status |-> 0]
    ELSE [next |-> FALSE, status |-> 403]

\* What the handler registered for the path answers.
ApiHandler(path) ==
    CASE path = "/api/health" -> SuccessResponse(0)
      [] path = "/api" -> SuccessResponse(0)
      [] path = "/api/routes" -> SuccessResponse(Len(routes))
      [] OTHER -> ErrorResponse(404)

\* One GET request under /api: the middleware, then the handler if the
\* middleware called next().
ApiRequest(path, apiKey, apiKeyRequired, adminApiKey) ==
    /\ phase = "ready"
    /\ LET checked == validateApiKey(apiKey, apiKeyRequired, adminApiKey)
       IN /\ call' = [op |-> "GET", path |-> path, apiKey |-> apiKey,
                      apiKeyRequired |-> apiKeyRequired,
                      adminApiKey |-> adminApiKey,
                      handlerRan |-> checked.next, threw |-> FALSE]
          /\ result' = IF checked.next THEN ApiHandler(path)
                       ELSE ErrorResponse(checked.status)
    /\ local' = <<>>
    /\ UNCHANGED <<phase, catalog, world>>

(***************************************************************************)
(* Specification of the requests under /api, over every configuration of   *)
(* the two settings.                                                       *)
(***************************************************************************)
ApiPaths == {"/api/health", "/api", "/api/routes", "/api/nowhere"}

ApiKeys == {Undefined, "", "secret", "Secret", "other"}

AdminKeys == {Undefined, "", "secret"}

InitApiKey ==
    /\ Constructed
    /\ bundle = BundleWith(<<>>)
    /\ feed = OkFeed(<<>>)
    /\ now = Now0

NextApiKey ==
    \/ Initialize
    \/ \E path \in ApiPaths, k \in ApiKeys, required \in BOOLEAN, a \in AdminKeys :
          ApiRequest(path, k, required, a)

SpecApiKey == InitApiKey /\ [][NextApiKey]_vars

\* The request carries no key: the header is missing or empty.
NoKey == call.apiKey \in {Undefined, ""}

\* An admin key is configured and the header equals it.
RightKey ==
    /\ ~NoKey
    /\ call.adminApiKey \notin {Undefined, ""}
    /\ call.apiKey = call.adminApiKey

(***************************************************************************)
(* C25.  When API_KEY_REQUIRED is true, no handler under /api (including   *)
(* /api/health and the /api documentation endpoint) runs for a request     *)
(* unless its X-API-Key header equals the configured ADMIN_API_KEY: a      *)
(* request without the header is answered 401, a request with any other    *)
(* key (or any key when ADMIN_API_KEY is not set) is answered 403; when    *)
(* API_KEY_REQUIRED is false every request passes.                         *)
(***************************************************************************)
C25_ApiKeyGate ==
    call.op = "GET" =>
        IF call.apiKeyRequired
        THEN /\ call.handlerRan <=> RightKey
             /\ NoKey => result = ErrorResponse(401)
             /\ (~NoKey /\ ~RightKey) => result = ErrorResponse(403)
             /\ RightKey => result = ApiHandler(call.path)
        ELSE /\ call.handlerRan
             /\ result = ApiHandler(call.path)

\* A key is required, none is configured, and the health check is asked for
\* with some key: 403.
C25_Witness ==
    /\ call.op = "GET"
    /\ call.path = "/api/health"
    /\ call.apiKeyRequired
    /\ call.adminApiKey = Undefined
    /\ call.apiKey = "secret"
    /\ ~call.handlerRan
    /\ result = ErrorResponse(403)

(***************************************************************************)
(* C26.  After the static load, within every trip the stored stop times    *)
(* have strictly increasing stopSequence values (no two stop times of one  *)
(* trip share a stopSequence), for every content of stop_times.txt.        *)
(***************************************************************************)
C26_Original_StrictlyIncreasing ==
    phase = "ready" =>
        \A i \in 1..Len(stopTimes) :
            \A k \in 1..(Len(stopTimes[i].val) - 1) :
                stopTimes[i].val[k].stopSequence < stopTimes[i].val[k + 1].stopSequence

\* What holds in place of C26: the stored stop times of a trip are in
\* non-decreasing stopSequence order, and every accepted line of the file is
\* stored, two lines of one trip with one stop_sequence included.
C26_NonDecreasing ==
    phase = "ready" =>
        /\ \A i \in 1..Len(stopTimes) :
              \A k \in 1..(Len(stopTimes[i].val) - 1) :
                  stopTimes[i].val[k].stopSequence <= stopTimes[i].val[k + 1].stopSequence
        /\ \A t \in TripIds :
              Cardinality({n \in 1..Len(bundle.stopTimes) :
                              /\ bundle.stopTimes[n].trip_id = t
                              /\ ~ParseInt(bundle.stopTimes[n].stop_sequence).isNaN})
                 = IF MapHas(stopTimes, t) THEN Len(MapGet(stopTimes, t)) ELSE 0

\* The stop ids visited on a route, with repetitions: the loaded trips of
\* the route in load order, each with its stored stop times in stored order.
RECURSIVE VisitsOf(_, _)
VisitsOf(routeId, tripEntries) ==
    IF tripEntries = <<>> THEN <<>>
    ELSE LET e == Head(tripEntries)
             own == IF e.val.routeId = routeId /\ MapHas(stopTimes, e.key)
                    THEN [k \in 1..Len(MapGet(stopTimes, e.key)) |->
                             MapGet(stopTimes, e.key)[k].stopId]
                    ELSE <<>>
         IN own \o VisitsOf(routeId, Tail(tripEntries))

\* The place of the first occurrence of an element in a sequence.
FirstAt(s, x) == CHOOSE i \in 1..Len(s) : s[i] = x /\ \A j \in 1..(i - 1) : s[j] # x

\* Some loaded trip of the route has stored stop times.
RouteHasStopTimes(routeId) ==
    \E i \in 1..Len(trips) :
        trips[i].val.routeId = routeId /\ MapHas(stopTimes, trips[i].key)

(***************************************************************************)
(* C27.  After the static load, for every routeId the RouteStops list      *)
(* contains no stopId twice and contains exactly the stopIds that occur in *)
(* the stop times of some loaded trip of that route, in first-seen order   *)
(* (trips in load order, each trip's stop times in stored order); a trip   *)
(* without stop times, and stop times whose tripId is not a loaded trip,   *)
(* contribute nothing.                                                     *)
(***************************************************************************)
C27_RouteStopsFirstSeen ==
    phase = "ready" =>
        /\ \A g \in 1..Len(routeStops) :
              LET ids == routeStops[g].val
                  visits == VisitsOf(routeStops[g].key, trips)
              IN /\ RouteHasStopTimes(routeStops[g].key)
                 /\ \A i, j \in 1..Len(ids) : ids[i] = ids[j] => i = j
                 /\ Range(ids) = Range(visits)
                 /\ \A i, j \in 1..Len(ids) :
                       i < j => FirstAt(visits, ids[i]) < FirstAt(visits, ids[j])
        /\ \A i \in 1..Len(trips) :
              RouteHasStopTimes(trips[i].val.routeId) =>
                  MapHas(routeStops, trips[i].val.routeId)
        /\ \A g, h \in 1..Len(routeStops) :
              routeStops[g].key = routeStops[h].key => g = h

\* Trip T1 calls at S300 and S100 and trip T2, of the same route, at S100:
\* the list of route 1 is S300, S100.
C27_Witness ==
    /\ phase = "ready"
    /\ VisitsOf("1", trips) = <<"S300", "S100", "S100">>
    /\ MapHas(routeStops, "1")
    /\ MapGet(routeStops, "1") = <<"S300", "S100">>

\* The stop-time updates of the feed that a returned arrival entry of the
\* route and time can come from: pairs of an entity and an update of it.
UpdatesBehind(routeId, time) ==
    {<<e, u>> \in (1..Len(feed.entity)) \X (1..MaxTimes) :
        /\ feed.entity[e].kind = "tripUpdate"
        /\ u <= Len(feed.entity[e].stopTimeUpdate)
        /\ feed.entity[e].trip.routeId = routeId
        /\ feed.entity[e].stopTimeUpdate[u].stopId = call.stopId
        /\ feed.entity[e].stopTimeUpdate[u].arrival.present
        /\ feed.entity[e].stopTimeUpdate[u].arrival.time = time}

(***************************************************************************)
(* C28.  In every arrival entry returned by getNextArrivals, isRealTime    *)
(* tells live from scheduled data: it is false when the stop-time update's *)
(* schedule relationship is SCHEDULED and true for every other schedule    *)
(* relationship.                                                           *)
(***************************************************************************)
C28_Original_IsRealTime ==
    (call.op = "getNextArrivals" /\ ~call.threw) =>
        \A i \in 1..Len(result) :
            \A k \in 1..Len(result[i].arrivalTimes) :
                \A p \in UpdatesBehind(result[i].routeId, result[i].arrivalTimes[k].time) :
                    result[i].arrivalTimes[k].isRealTime <=>
                        ScheduleRelationshipName(
                            feed.entity[p[1]].stopTimeUpdate[p[2]].scheduleRelationship)
                        # "SCHEDULED"

\* What holds in place of C28: isRealTime is true in every returned entry,
\* whatever the schedule relationship of its update.
C28_AlwaysRealTime ==
    (call.op = "getNextArrivals" /\ ~call.threw) =>
        \A i \in 1..Len(result) :
            \A k \in 1..Len(result[i].arrivalTimes) :
                /\ result[i].arrivalTimes[k].isRealTime
                /\ UpdatesBehind(result[i].routeId,
                                 result[i].arrivalTimes[k].time) # {}

\* HH * 3600 + MM * 60 + SS of a stored "HH:MM:SS".
WallClock(timeStr) == timeStr[1] * 3600 + timeStr[2] * 60 + timeStr[3]

\* The stop times stored at the requested stop, as <<trip position, position
\* within the trip>>.
StopTimesAtStop ==
    {<<g, k>> \in (1..Len(stopTimes)) \X (1..MaxStopTimeRows) :
        /\ k <= Len(stopTimes[g].val)
        /\ stopTimes[g].val[k].stopId = call.stopId}

\* A stop time before hour 24 whose time of day is not later than the clock's.
PastToday(g, k) ==
    /\ stopTimes[g].val[k].departureTime[1] < 24
    /\ WallClock(stopTimes[g].val[k].departureTime)
           <= call.currentTime - LocalMidnight(call.currentTime)

\* Whether the scan collected, for any route, a departure of the trip at t.
CollectedAt(tripId, t) ==
    \E r \in 1..Len(local) :
        \E c \in 1..Len(local[r].val) :
            local[r].val[c].tripId = tripId /\ local[r].val[c].time = t

StatusJson(res, code) ==
    IF res.headersSent
    THEN [res |-> res, threw |-> TRUE]
    ELSE [res |-> [res EXCEPT !.headersSent = TRUE,
                              !.written = Append(@, code)],
          threw |-> FALSE]

\* The catch of handleAsync: a 500 unless the headers were sent.
handleAsync(res, rejected) ==
    IF rejected /\ ~res.headersSent THEN StatusJson(res, 500).res ELSE res

\* process.on("uncaughtException"): the process exits with code 1.
uncaughtException(q) ==
    [op |-> "exit", code |-> 1, cause |-> "uncaughtException", id |-> q]

\* The handlers that answer without awaiting anything.
SynchronousPaths == {"/api/health", "/api"}

\* The timeout middleware arms the timer and calls next(); a synchronous
\* handler answers at once, an asynchronous one suspends at its first await.
RequestArrives(q, path) ==
    /\ phase = "ready"
    /\ ~InFlight(q)
    /\ LET res == [path |-> path, pc |-> "awaiting", headersSent |-> FALSE,
                   finished |-> FALSE, written |-> <<>>]
       IN local' = WithFrame(q, IF path \in SynchronousPaths
                                THEN [StatusJson(res, 200).res
                                          EXCEPT !.pc = "returned"]
                                ELSE res)
    /\ call' = [op |-> "request", id |-> q, path |-> path]
    /\ UNCHANGED <<phase, catalog, world, result>>

\* The timer's callback, res.status(408).json(...), guarded by nothing: a
\* throw in it is an uncaught exception.
TimeoutCallback(q) ==
    /\ phase = "ready"
    /\ InFlight(q)
    /\ ~local[q].finished
    /\ LET sent == StatusJson(local[q], 408)
       IN IF sent.threw
          THEN /\ phase' = "exited"
               /\ call' = uncaughtException(q)
               /\ UNCHANGED local
          ELSE /\ local' = [local EXCEPT ![q] = sent.res]
               /\ call' = [op |-> "timeout", id |-> q]
               /\ UNCHANGED phase
    /\ UNCHANGED <<catalog, world, result>>

\* The awaited call returns and the handler calls res.json(...); a throw of
\* it rejects the handler's promise, which handleAsync catches.
HandlerCompletes(q) ==
    /\ phase = "ready"
    /\ InFlight(q)
    /\ local[q].pc = "awaiting"
    /\ LET sent == StatusJson(local[q], 200)
       IN /\ local' = [local EXCEPT
                          ![q] = [handleAsync(sent.res, sent.threw)
                                      EXCEPT !.pc = "returned"]]
          /\ call' = [op |-> "handler", id |-> q, threw |-> sent.threw]
    /\ UNCHANGED <<phase, catalog, world, result>>

\* The awaited call throws: the handler's promise rejects.
HandlerFails(q) ==
    /\ phase = "ready"
    /\ InFlight(q)
    /\ local[q].pc = "awaiting"
    /\ local' = [local EXCEPT ![q] = [handleAsync(local[q], TRUE)
                                         EXCEPT !.pc = "returned"]]
    /\ call' = [op |-> "handler", id |-> q, threw |-> TRUE]
    /\ UNCHANGED <<phase, catalog, world, result>>

\* The written response has been handed to the socket: it finishes, and its
\* timeout listener is not called any more.
ResponseFinished(q) ==
    /\ phase = "ready"
    /\ InFlight(q)
    /\ local[q].headersSent
    /\ ~local[q].finished
    /\ local' = [local EXCEPT ![q].finished = TRUE]
    /\ call' = [op |-> "finish", id |-> q]
    /\ UNCHANGED <<phase, catalog, world, result>>

(***************************************************************************)
(* Specification of requests racing with their timeouts.                   *)
(***************************************************************************)
TimeoutPaths == {"/api/health", "/api/arrivals/:stopId", "/api/routes"}

InitTimeout ==
    /\ Constructed
    /\ bundle = BundleWith(<<>>)
    /\ feed = OkFeed(<<>>)
    /\ now = Now0

NextTimeout ==
    \/ Initialize
    \/ \E q \in QueryIds, path \in TimeoutPaths : RequestArrives(q, path)
    \/ \E q \in QueryIds : TimeoutCallback(q)
    \/ \E q \in QueryIds : HandlerCompletes(q)
    \/ \E q \in QueryIds : HandlerFails(q)
    \/ \E q \in QueryIds : ResponseFinished(q)

SpecTimeout == InitTimeout /\ [][NextTimeout]_vars

(***************************************************************************)
(* C30.  For every request and every interleaving of the request-timeout   *)
(* callback with the asynchronous handler, at most one response is         *)
(* written, and no uncaught error terminates the process: neither when the *)
(* timeout fires after the handler has responded, nor when the handler     *)
(* completes or fails after the 408 response was sent.                     *)
(***************************************************************************)
C30_Original_NoUncaughtError ==
    /\ \A q \in DOMAIN local : Len(local[q].written) <= 1
    /\ phase # "exited"

\* C30, the part that holds: at most one response is written per request,
\* a handler that completes or fails after the 408 response writes nothing
\* and leaves the process running, and the process exits only from a timeout
\* callback that found a response already written.
C30_OneResponseHandlerCaught ==
    /\ \A q \in DOMAIN local : Len(local[q].written) <= 1
    /\ (call.op = "handler" /\ local[call.id].written = <<408>>)
           => phase = "ready"
    /\ phase = "exited" => (call = uncaughtException(call.id)
                              /\ Len(local[call.id].written) = 1
                              /\ ~local[call.id].finished)

=============================================================================
